---- MODULE Spec2Model ----
(***************************************************************************)
(* Tournament server for two-player board games (crjm-server).            *)
(*                                                                         *)
(* The model follows one tournament of one game from its creation to its  *)
(* end: registration, the double-elimination bracket, best-of-three        *)
(* matches, game sessions, the bot driver and its timers, and the client   *)
(* commands of the WebSocket handler.  The game played is Atari Go; its    *)
(* board is abstracted: whether a placement is legal and whether it        *)
(* captures is an input of the move.                                       *)
(***************************************************************************)
EXTENDS Integers, Sequences, FiniteSets, Bags, TLC

\* ------------------------------------------------------------------ bounds
MaxPlayers == 2
MaxConns == 2
MaxMoves == 1
MaxGames == 4
MaxBots == 4
MaxOthers == 1

\* --------------------------------------------------------------- constants
NoPlayer == 0
NoMatch == 0
BestOf == 3

Roles == {"player1", "player2"}

OtherRole(r) == IF r = "player1" THEN "player2" ELSE "player1"

\* ============================================================ bracket maths
RECURSIVE Pow2(_)
Pow2(k) == IF k = 0 THEN 1 ELSE 2 * Pow2(k - 1)

RECURSIVE CeilLog2From(_, _)
CeilLog2From(n, k) == IF Pow2(k) >= n THEN k ELSE CeilLog2From(n, k + 1)

\* Math.ceil(Math.log2(n))
CeilLog2(n) == CeilLog2From(n, 0)

CeilHalf(x) == (x + 1) \div 2

BracketSize(n) == Pow2(CeilLog2(n))

NumRoundsWinners(n) == CeilLog2(BracketSize(n))

NumLosersRounds(n) == (NumRoundsWinners(n) - 1) * 2

\* winnersByRound[round - 1].length
WinnersRoundLen(n, round) == BracketSize(n) \div Pow2(round)

WinnersRoundDropping(lRound) == CeilHalf(lRound)

IsDropoutRound(lRound) == lRound % 2 = 1

\* losersByRound[lRound - 1].length
RECURSIVE LosersRoundLen(_, _)
LosersRoundLen(n, lRound) ==
  IF IsDropoutRound(lRound)
  THEN CeilHalf(WinnersRoundLen(n, WinnersRoundDropping(lRound)))
  ELSE CeilHalf(LosersRoundLen(n, lRound - 1))

RECURSIVE SumWinners(_, _)
SumWinners(n, upTo) ==
  IF upTo = 0 THEN 0 ELSE WinnersRoundLen(n, upTo) + SumWinners(n, upTo - 1)

RECURSIVE SumLosers(_, _)
SumLosers(n, upTo) ==
  IF upTo = 0 THEN 0 ELSE LosersRoundLen(n, upTo) + SumLosers(n, upTo - 1)

NumWinnersMatches(n) == SumWinners(n, NumRoundsWinners(n))

NumLosersMatches(n) == SumLosers(n, NumLosersRounds(n))

\* Position of a match in [...winnersMatches, ...losersMatches, grandFinal,
\* grandFinalReset]; i is the 0-based index inside its round, as in the code.
WId(n, round, i) == SumWinners(n, round - 1) + i + 1

LId(n, lRound, i) == NumWinnersMatches(n) + SumLosers(n, lRound - 1) + i + 1

GrandFinalId(n) == NumWinnersMatches(n) + NumLosersMatches(n) + 1

GrandFinalResetId(n) == GrandFinalId(n) + 1

\* ======================================================= bracket generation
createMatch(round, bracket, player1Id, player2Id) ==
  [ round |-> round,
    bracket |-> bracket,
    player1Id |-> player1Id,
    player2Id |-> player2Id,
    p1Wins |-> 0,
    p2Wins |-> 0,
    currentGame |-> 0,
    whoStartsCurrentGame |-> "null",
    phase |-> "waiting",
    winnerId |-> NoPlayer,
    loserId |-> NoPlayer,
    winnerGoesToMatchId |-> NoMatch,
    loserGoesToMatchId |-> NoMatch ]

\* shuffledPlayers[i] || null, i counted from 0
ShuffledSlot(shuffled, i) ==
  IF i < Len(shuffled) THEN shuffled[i + 1] ELSE NoPlayer

\* Round 1 of the winners bracket: a match with exactly one player is a bye,
\* finished at once with that player as winner.
Round1Match(shuffled, i) ==
  LET p1 == ShuffledSlot(shuffled, i * 2)
      p2 == ShuffledSlot(shuffled, i * 2 + 1)
      m == createMatch(1, "winners", p1, p2)
  IN  IF p1 # NoPlayer /\ p2 = NoPlayer
      THEN [m EXCEPT !.winnerId = p1, !.phase = "finished"]
      ELSE IF p1 = NoPlayer /\ p2 # NoPlayer
      THEN [m EXCEPT !.winnerId = p2, !.phase = "finished"]
      ELSE m

\* Players and phase of winners match i of a round as the constructor leaves
\* them (links are added by WinnersMatch).
RECURSIVE WinnersSeed(_, _, _)
WinnersSeed(shuffled, round, i) ==
  IF round = 1
  THEN Round1Match(shuffled, i)
  ELSE LET s1 == WinnersSeed(shuffled, round - 1, i * 2)
           s2 == WinnersSeed(shuffled, round - 1, i * 2 + 1)
       IN  createMatch(round, "winners",
             IF s1.phase = "finished" /\ s1.winnerId # NoPlayer
               THEN s1.winnerId ELSE NoPlayer,
             IF s2.phase = "finished" /\ s2.winnerId # NoPlayer
               THEN s2.winnerId ELSE NoPlayer)

\* winnerGoesToMatchId of winners match i of a round
WinnersWinnerLink(n, round, i) ==
  IF round < NumRoundsWinners(n)
  THEN WId(n, round + 1, i \div 2)
  ELSE GrandFinalId(n)

\* loserGoesToMatchId of winners match i of a round: round 1 drops in pairs
\* into losers round 1; round k > 1 drops into losers round 2k-1, one loser
\* per losers match, and only while that losers round exists and has a match
\* of that index.
WinnersLoserLink(n, round, i) ==
  LET lRound == 2 * round - 1
  IN  IF lRound > NumLosersRounds(n) THEN NoMatch
      ELSE IF round = 1 THEN LId(n, 1, i \div 2)
      ELSE IF i < LosersRoundLen(n, lRound) THEN LId(n, lRound, i)
      ELSE NoMatch

WinnersMatch(n, shuffled, round, i) ==
  [WinnersSeed(shuffled, round, i) EXCEPT
     !.winnerGoesToMatchId = WinnersWinnerLink(n, round, i),
     !.loserGoesToMatchId = WinnersLoserLink(n, round, i)]

\* winnerGoesToMatchId of losers match i of a losers round
LosersWinnerLink(n, lRound, i) ==
  IF lRound = NumLosersRounds(n)
  THEN (IF i = 0 THEN GrandFinalId(n) ELSE NoMatch)
  ELSE IF IsDropoutRound(lRound + 1)
  THEN (IF i < LosersRoundLen(n, lRound + 1)
          THEN LId(n, lRound + 1, i) ELSE NoMatch)
  ELSE LId(n, lRound + 1, i \div 2)

LosersMatch(n, lRound, i) ==
  [createMatch(lRound, "losers", NoPlayer, NoPlayer) EXCEPT
     !.winnerGoesToMatchId = LosersWinnerLink(n, lRound, i)]

RECURSIVE WinnersRounds(_, _, _)
WinnersRounds(n, shuffled, upTo) ==
  IF upTo = 0 THEN << >>
  ELSE WinnersRounds(n, shuffled, upTo - 1)
       \o [k \in 1..WinnersRoundLen(n, upTo) |->
             WinnersMatch(n, shuffled, upTo, k - 1)]

RECURSIVE LosersRounds(_, _)
LosersRounds(n, upTo) ==
  IF upTo = 0 THEN << >>
  ELSE LosersRounds(n, upTo - 1)
       \o [k \in 1..LosersRoundLen(n, upTo) |-> LosersMatch(n, upTo, k - 1)]

\* [...winnersMatches, ...losersMatches, grandFinal, grandFinalReset]
createDoubleEliminationBracket(shuffled) ==
  LET n == Len(shuffled)
  IN  WinnersRounds(n, shuffled, NumRoundsWinners(n))
      \o LosersRounds(n, NumLosersRounds(n))
      \o << createMatch(NumRoundsWinners(n) + 1, "winners", NoPlayer, NoPlayer),
            createMatch(NumRoundsWinners(n) + 2, "winners", NoPlayer, NoPlayer) >>

\* shuffleArray: every ordering of the players
Shuffles(ids) ==
  { s \in [1..Cardinality(ids) -> ids] :
      \A a, b \in 1..Cardinality(ids) : a # b => s[a] # s[b] }

\* ==================================================================== state
VARIABLES
  tphase,        \* tournament.phase, "none" before the tournament exists
  players,       \* tournament.players: id -> [isOnline, isBot]
  nextPlayerId,  \* the counter behind generateId('player')
  matches,       \* [...winnersMatches, ...losersMatches, grandFinal, grandFinalReset]
  championId,    \* tournament.championId
  sessions,      \* sessionsByMatch: match id -> its sessions, oldest first
  gameTimers,    \* pending inter-game timers (bag of match ids)
  botTimers,     \* sessions with a pending scheduleBotMove timer: <<match, session>>
  conn,          \* connections: id -> [open, playerId] (ws.data)
  playerConnections, \* playerConnections: player id -> connection id
  others,        \* the later tournaments of the same game, in the order of
                 \* tournamentsByGame: each by its phase and its number of players
  out,           \* match id -> the broadcasts made to its players, oldest first
  game,          \* the state of a game engine played on its own
  last           \* the command handled last and the reply sent to its sender

vars == << tphase, players, nextPlayerId, matches, championId, sessions,
           gameTimers, botTimers, conn, playerConnections,
           others, out, game, last >>

\* what a rejected command must leave alone
coreVars == << tphase, players, nextPlayerId, matches, championId, sessions,
               gameTimers, botTimers, others, out, game >>

Conns == 1..MaxConns

ErrorCodes == { "NOT_IN_TOURNAMENT", "MATCH_NOT_FOUND", "NOT_IN_MATCH",
                "NO_ACTIVE_GAME", "INVALID_MOVE", "JOIN_FAILED" }

Reply(cmd, code) == [cmd |-> cmd, code |-> code]

NoCommand == Reply("none", "none")

\* The part of the state the game flow rewrites, passed through the handlers.
World ==
  [ tphase |-> tphase, matches |-> matches, championId |-> championId,
    sessions |-> sessions, gameTimers |-> gameTimers, botTimers |-> botTimers,
    out |-> out ]

\* the engines are played on their own: the server holds none of them
NoGame == [gameId |-> "none"]

\* ============================================================ game engine
\* Atari Go with the board left out.  A move is a pass or a placement; a
\* placement is "illegal" (off the board, on a stone, or suicide), a plain
\* "place", or a "capture" (it takes the last liberty of an opposing group).
createInitialState(startingPlayer) ==
  [ currentPlayer |-> startingPlayer, winner |-> "null", passCount |-> 0 ]

validateMove(state, move, player) ==
  IF state.winner # "null" THEN FALSE
  ELSE IF state.currentPlayer # player THEN FALSE
  ELSE IF move = "pass" THEN TRUE
  ELSE move \in {"place", "capture"}

applyMove(state, move, player) ==
  IF move = "pass"
  THEN IF state.passCount + 1 >= 2
       THEN [state EXCEPT !.passCount = @ + 1, !.winner = "draw"]
       ELSE [state EXCEPT !.passCount = @ + 1,
                          !.currentPlayer = OtherRole(player)]
  ELSE IF move = "capture"
  THEN [state EXCEPT !.passCount = 0, !.winner = player]
  ELSE [state EXCEPT !.passCount = 0, !.currentPlayer = OtherRole(player)]

isGameOver(state) == state.winner # "null"

getWinner(state) == state.winner

getCurrentTurn(state) == state.currentPlayer

\* ======================================================== session manager
createSession(gameNumber, startingPlayer) ==
  [ gameNumber |-> gameNumber,
    state |-> createInitialState(startingPlayer),
    currentTurn |-> startingPlayer,
    isFinished |-> FALSE,
    moves |-> << >> ]

\* index of the first non-finished session of a list, 0 when there is none
RECURSIVE FirstActive(_, _)
FirstActive(list, i) ==
  IF i > Len(list) THEN 0
  ELSE IF ~list[i].isFinished THEN i
  ELSE FirstActive(list, i + 1)

getActiveSessionForMatch(w, m) == FirstActive(w.sessions[m], 1)

\* submitMove judging the move as if the player to move had sent it
submitMoveAsPlayerToMove(session, playerId, playerRole, move) ==
  IF session.isFinished
  THEN [success |-> FALSE, gameOver |-> FALSE, winner |-> "null", session |-> session]
  ELSE IF ~validateMove(session.state, move, session.currentTurn)
  THEN [success |-> FALSE, gameOver |-> FALSE, winner |-> "null", session |-> session]
  ELSE LET st == applyMove(session.state, move, session.currentTurn)
           played == [session EXCEPT
                        !.state = st,
                        !.currentTurn = getCurrentTurn(st),
                        !.moves = Append(@, playerId)]
       IN  IF isGameOver(st)
           THEN [success |-> TRUE, gameOver |-> TRUE, winner |-> getWinner(st),
                 session |-> [played EXCEPT !.isFinished = TRUE]]
           ELSE [success |-> TRUE, gameOver |-> FALSE, winner |-> "null",
                 session |-> played]

\* GameSessionManager.submitMove on one session: the outcome and the session
\* as it is left.
submitMove(session, playerId, playerRole, move) ==
  IF session.isFinished
  THEN [success |-> FALSE, gameOver |-> FALSE, winner |-> "null", session |-> session]
  ELSE IF session.currentTurn # playerRole
  THEN [success |-> FALSE, gameOver |-> FALSE, winner |-> "null", session |-> session]
  ELSE IF ~validateMove(session.state, move, playerRole)
  THEN [success |-> FALSE, gameOver |-> FALSE, winner |-> "null", session |-> session]
  ELSE LET st == applyMove(session.state, move, playerRole)
           played == [session EXCEPT
                        !.state = st,
                        !.currentTurn = getCurrentTurn(st),
                        !.moves = Append(@, playerId)]
       IN  IF isGameOver(st)
           THEN [success |-> TRUE, gameOver |-> TRUE, winner |-> getWinner(st),
                 session |-> [played EXCEPT !.isFinished = TRUE]]
           ELSE [success |-> TRUE, gameOver |-> FALSE, winner |-> "null",
                 session |-> played]

cleanupMatchSessions(w, m) == [w EXCEPT !.sessions[m] = << >>]

\* ===================================================== tournament manager
GrandFinal(w) == Len(w.matches) - 1

GrandFinalReset(w) == Len(w.matches)

\* spec: players carry isBot; the manager answers whether a player is a bot
isPlayerBot(playerId) ==
  playerId \in DOMAIN players /\ players[playerId].isBot

getMatchesReadyToStart(w) ==
  IF w.tphase # "running" THEN {}
  ELSE { m \in 1..Len(w.matches) :
           /\ w.matches[m].phase = "waiting"
           /\ w.matches[m].player1Id # NoPlayer
           /\ w.matches[m].player2Id # NoPlayer }

\* TournamentManager.startMatch; ok is FALSE where the code returns null
startMatch(w, m) ==
  IF m \notin 1..Len(w.matches) \/ w.matches[m].phase # "waiting"
  THEN [ok |-> FALSE, w |-> w]
  ELSE IF w.matches[m].player1Id = NoPlayer \/ w.matches[m].player2Id = NoPlayer
  THEN [ok |-> FALSE, w |-> w]
  ELSE [ok |-> TRUE,
        w |-> [w EXCEPT !.matches[m].phase = "playing",
                        !.matches[m].currentGame = 1,
                        !.matches[m].whoStartsCurrentGame = "player1"]]

\* advanceWinner without the second slot
advanceWinnerFirstSlotOnly(ms, playerId, nextMatchId) ==
  IF nextMatchId \notin 1..Len(ms) THEN ms
  ELSE IF ms[nextMatchId].player1Id = NoPlayer
  THEN [ms EXCEPT ![nextMatchId].player1Id = playerId]
  ELSE ms

advanceWinner(ms, playerId, nextMatchId) ==
  IF nextMatchId \notin 1..Len(ms) THEN ms
  ELSE IF ms[nextMatchId].player1Id = NoPlayer
  THEN [ms EXCEPT ![nextMatchId].player1Id = playerId]
  ELSE IF ms[nextMatchId].player2Id = NoPlayer
  THEN [ms EXCEPT ![nextMatchId].player2Id = playerId]
  ELSE ms

advanceLoser(ms, playerId, nextMatchId) ==
  IF nextMatchId \notin 1..Len(ms) THEN ms
  ELSE IF ms[nextMatchId].player1Id = NoPlayer
  THEN [ms EXCEPT ![nextMatchId].player1Id = playerId]
  ELSE IF ms[nextMatchId].player2Id = NoPlayer
  THEN [ms EXCEPT ![nextMatchId].player2Id = playerId]
  ELSE ms

\* ScoreAfter counting a drawn game for player 1
ScoreAfterDrawForPlayer1(match, winnerId) ==
  IF winnerId = match.player2Id
  THEN [match EXCEPT !.p2Wins = @ + 1]
  ELSE [match EXCEPT !.p1Wins = @ + 1]

\* the score after one game: a null winner (a draw) counts for no one
ScoreAfter(match, winnerId) ==
  IF winnerId = match.player1Id
  THEN [match EXCEPT !.p1Wins = @ + 1]
  ELSE IF winnerId = match.player2Id
  THEN [match EXCEPT !.p2Wins = @ + 1]
  ELSE match

\* MatchDecided recording the winner only
MatchDecidedWinnerOnly(match) ==
  LET winsNeeded == CeilHalf(BestOf)
  IN  IF match.p1Wins >= winsNeeded
      THEN [match EXCEPT !.winnerId = match.player1Id, !.phase = "finished"]
      ELSE IF match.p2Wins >= winsNeeded
      THEN [match EXCEPT !.winnerId = match.player2Id, !.phase = "finished"]
      ELSE match

\* MatchDecided asking for bestOf wins
MatchDecidedAtBestOf(match) ==
  IF match.p1Wins >= BestOf
  THEN [match EXCEPT !.winnerId = match.player1Id,
                     !.loserId = match.player2Id,
                     !.phase = "finished"]
  ELSE IF match.p2Wins >= BestOf
  THEN [match EXCEPT !.winnerId = match.player2Id,
                     !.loserId = match.player1Id,
                     !.phase = "finished"]
  ELSE match

\* the match closed when a player has the wins needed, else as it was
MatchDecided(match) ==
  LET winsNeeded == CeilHalf(BestOf)
  IN  IF match.p1Wins >= winsNeeded
      THEN [match EXCEPT !.winnerId = match.player1Id,
                         !.loserId = match.player2Id,
                         !.phase = "finished"]
      ELSE IF match.p2Wins >= winsNeeded
      THEN [match EXCEPT !.winnerId = match.player2Id,
                         !.loserId = match.player1Id,
                         !.phase = "finished"]
      ELSE match

\* AdvancePlayers handing the winner to advanceLoser
AdvancePlayersWinnerTwice(ms, match) ==
  LET a == IF match.winnerId # NoPlayer /\ match.winnerGoesToMatchId # NoMatch
           THEN advanceWinner(ms, match.winnerId, match.winnerGoesToMatchId)
           ELSE ms
  IN  IF match.loserId # NoPlayer /\ match.loserGoesToMatchId # NoMatch
      THEN advanceLoser(a, match.winnerId, match.loserGoesToMatchId)
      ELSE a

\* winner and loser of a finished match moved along its links
AdvancePlayers(ms, match) ==
  LET a == IF match.winnerId # NoPlayer /\ match.winnerGoesToMatchId # NoMatch
           THEN advanceWinner(ms, match.winnerId, match.winnerGoesToMatchId)
           ELSE ms
  IN  IF match.loserId # NoPlayer /\ match.loserGoesToMatchId # NoMatch
      THEN advanceLoser(a, match.loserId, match.loserGoesToMatchId)
      ELSE a

\* GrandFinalOutcome crowning whoever wins the grand final
GrandFinalOutcomeNoReset(w, m, match) ==
  IF m = GrandFinal(w) \/ m = GrandFinalReset(w)
  THEN [w EXCEPT !.championId = match.winnerId]
  ELSE w

\* the grand final and its reset: champion, or the reset filled
GrandFinalOutcome(w, m, match) ==
  IF m = GrandFinal(w)
  THEN IF match.winnerId = match.player1Id
       THEN [w EXCEPT !.championId = match.winnerId]
       ELSE [w EXCEPT !.matches[GrandFinalReset(w)].player1Id = match.player1Id,
                      !.matches[GrandFinalReset(w)].player2Id = match.player2Id]
  ELSE IF m = GrandFinalReset(w)
  THEN [w EXCEPT !.championId = match.winnerId]
  ELSE w

\* NextGame keeping the starting role
NextGameSameStarter(match) ==
  [match EXCEPT !.currentGame = @ + 1]

\* the next game of an undecided match
NextGame(match) ==
  [match EXCEPT
     !.currentGame = @ + 1,
     !.whoStartsCurrentGame = IF @ = "player1" THEN "player2" ELSE "player1"]

\* recordGameResult crowning the champion without ending the tournament
recordGameResultChampionOnly(w, m, winnerId) ==
  IF w.tphase = "none" \/ m \notin 1..Len(w.matches)
  THEN [matchFinished |-> FALSE, tournamentFinished |-> FALSE, w |-> w]
  ELSE
    LET match == MatchDecided(ScoreAfter(w.matches[m], winnerId))
    IN  IF match.phase = "finished"
        THEN LET w1 == [w EXCEPT !.matches =
                          AdvancePlayers([w.matches EXCEPT ![m] = match], match)]
             IN  [matchFinished |-> TRUE, tournamentFinished |-> FALSE,
                  w |-> GrandFinalOutcome(w1, m, match)]
        ELSE [matchFinished |-> FALSE, tournamentFinished |-> FALSE,
              w |-> [w EXCEPT !.matches[m] = NextGame(match)]]

\* TournamentManager.recordGameResult
recordGameResult(w, m, winnerId) ==
  IF w.tphase = "none" \/ m \notin 1..Len(w.matches)
  THEN [matchFinished |-> FALSE, tournamentFinished |-> FALSE, w |-> w]
  ELSE
    LET match == MatchDecided(ScoreAfter(w.matches[m], winnerId))
    IN  IF match.phase = "finished"
        THEN LET w1 == [w EXCEPT !.matches =
                          AdvancePlayers([w.matches EXCEPT ![m] = match], match)]
                 w2 == GrandFinalOutcome(w1, m, match)
                 w3 == IF w2.championId # NoPlayer
                       THEN [w2 EXCEPT !.tphase = "finished"] ELSE w2
             IN  [matchFinished |-> TRUE,
                  tournamentFinished |->
                    \/ (m = GrandFinal(w) /\ match.winnerId = match.player1Id)
                    \/ m = GrandFinalReset(w),
                  w |-> w3]
        ELSE [matchFinished |-> FALSE, tournamentFinished |-> FALSE,
              w |-> [w EXCEPT !.matches[m] = NextGame(match)]]

finishTournament(w) ==
  IF w.tphase = "none" THEN w ELSE [w EXCEPT !.tphase = "finished"]

\* ============================================================== game flow
isBotVsBotMatch(w, m) ==
  /\ w.matches[m].player1Id # NoPlayer
  /\ w.matches[m].player2Id # NoPlayer
  /\ isPlayerBot(w.matches[m].player1Id)
  /\ isPlayerBot(w.matches[m].player2Id)

\* scheduleBotMove: a pending timer for a session of a match.  Timers for the
\* same session are kept as one: a second one finds either the same position
\* or one the first has already played.
scheduleBotMove(w, m, sessionIx) ==
  [w EXCEPT !.botTimers = @ \cup {<<m, sessionIx>>}]

\* The broadcasts to the players of a match.  A message names the session it
\* is about and, for a game_state_update, the number of moves in the state it
\* carries.  The log holds every broadcast made, whoever was connected.
GameStart(sessionIx) ==
  [type |-> "game_start", session |-> sessionIx, moves |-> 0]

GameStateUpdate(sessionIx, n) ==
  [type |-> "game_state_update", session |-> sessionIx, moves |-> n]

GameEnd(sessionIx, n) ==
  [type |-> "game_end", session |-> sessionIx, moves |-> n]

broadcastToMatchPlayers(w, m, msg) == [w EXCEPT !.out[m] = Append(@, msg)]

broadcastGameStateUpdate(w, m, sessionIx) ==
  IF sessionIx \notin 1..Len(w.sessions[m]) THEN w
  ELSE broadcastToMatchPlayers(w, m,
         GameStateUpdate(sessionIx, Len(w.sessions[m][sessionIx].moves)))

\* startGameInMatch: a session for the match's current game, game_start to the
\* players, then the bot timer
startGameInMatch(w, m) ==
  IF w.tphase = "none" THEN w
  ELSE LET match == w.matches[m]
           start == IF match.whoStartsCurrentGame = "null"
                    THEN "player1" ELSE match.whoStartsCurrentGame
           w1 == [w EXCEPT !.sessions[m] =
                    Append(@, createSession(match.currentGame, start))]
           w2 == broadcastToMatchPlayers(w1, m, GameStart(Len(w1.sessions[m])))
       IN  scheduleBotMove(w2, m, Len(w1.sessions[m]))

\* startMatchAndNotify opening a game whether or not the match could be started
startMatchAndNotifyAlways(w, m) ==
  startGameInMatch(startMatch(w, m).w, m)

startMatchAndNotify(w, m) ==
  LET r == startMatch(w, m)
  IN  IF r.ok THEN startGameInMatch(r.w, m) ELSE w

\* the loop over readyMatches in the order of the list
RECURSIVE StartEach(_, _, _)
StartEach(w, ready, onlyBots) ==
  IF ready = {} THEN w
  ELSE LET m == CHOOSE x \in ready : \A y \in ready : x <= y
       IN  StartEach(IF onlyBots /\ ~isBotVsBotMatch(w, m)
                       THEN w ELSE startMatchAndNotify(w, m),
                     ready \ {m}, onlyBots)

\* match_end as handleMatchEnd builds it for the two roles of the match:
\* youWon and eliminatedFromTournament are computed from the match alone
MatchEnd(match) ==
  LET playerId(role) == IF role = "player1" THEN match.player1Id
                        ELSE match.player2Id
  IN  [ type |-> "match_end",
        winnerId |-> match.winnerId,
        youWon |-> [role \in {"player1", "player2"} |->
                      playerId(role) = match.winnerId],
        eliminatedFromTournament |->
          [role \in {"player1", "player2"} |->
             playerId(role) = match.loserId /\ match.bracket = "losers"] ]

\* match_end to the players, then the matches that became ready are started
\* and the sessions of the finished match are dropped
handleMatchEnd(w, m) ==
  IF w.tphase = "none" \/ w.matches[m].winnerId = NoPlayer THEN w
  ELSE LET sent == broadcastToMatchPlayers(w, m, MatchEnd(w.matches[m]))
       IN  cleanupMatchSessions(
             StartEach(sent, getMatchesReadyToStart(sent), TRUE), m)

handleTournamentEnd(w) ==
  IF w.tphase = "none" \/ w.championId = NoPlayer THEN w
  ELSE finishTournament(w)

\* handleGameEnd that sends no game_end
handleGameEndSilent(w, m, sessionIx, winnerRole) ==
  IF sessionIx \notin 1..Len(w.sessions[m]) THEN w
  ELSE
    LET match == w.matches[m]
        winnerId == IF winnerRole = "player1" THEN match.player1Id
                    ELSE IF winnerRole = "player2" THEN match.player2Id
                    ELSE NoPlayer
        r == recordGameResult(w, m, winnerId)
        w1 == IF r.matchFinished
              THEN handleMatchEnd(r.w, m)
              ELSE [r.w EXCEPT !.gameTimers = @ (+) SetToBag({m})]
    IN  IF r.tournamentFinished THEN handleTournamentEnd(w1) ELSE w1

handleGameEnd(w, m, sessionIx, winnerRole) ==
  IF sessionIx \notin 1..Len(w.sessions[m]) THEN w
  ELSE
    LET match == w.matches[m]
        winnerId == IF winnerRole = "player1" THEN match.player1Id
                    ELSE IF winnerRole = "player2" THEN match.player2Id
                    ELSE NoPlayer
        r == recordGameResult(w, m, winnerId)
        sent == broadcastToMatchPlayers(r.w, m,
                  GameEnd(sessionIx, Len(w.sessions[m][sessionIx].moves)))
        w1 == IF r.matchFinished
              THEN handleMatchEnd(sent, m)
              ELSE [sent EXCEPT !.gameTimers = @ (+) SetToBag({m})]
    IN  IF r.tournamentFinished THEN handleTournamentEnd(w1) ELSE w1

\* --------------------------------------------------------------- bot driver
\* getBotMove: the bot never passes while a placement exists; it takes a
\* capture when the position offers one.  NoMove stands for null.
BotMoves(session) ==
  (IF Len(session.moves) >= 1 THEN {"capture"} ELSE {})
  \cup (IF Len(session.moves) < MaxMoves THEN {"place"} ELSE {})

\* maybePlayForBot that plays its move and sets no timer for the next one
maybePlayForBotOnce(w, m, sessionIx, botMove) ==
  IF sessionIx \notin 1..Len(w.sessions[m]) \/ w.sessions[m][sessionIx].isFinished
  THEN w
  ELSE
    LET session == w.sessions[m][sessionIx]
        currentTurn == session.currentTurn
        currentPlayerId == IF currentTurn = "player1"
                           THEN w.matches[m].player1Id ELSE w.matches[m].player2Id
    IN  IF currentPlayerId = NoPlayer \/ ~isPlayerBot(currentPlayerId) THEN w
        ELSE
          LET result == submitMove(session, currentPlayerId, currentTurn, botMove)
              w1 == broadcastGameStateUpdate(
                      [w EXCEPT !.sessions[m][sessionIx] = result.session],
                      m, sessionIx)
          IN  IF ~result.success THEN w
              ELSE IF result.gameOver
              THEN handleGameEnd(w1, m, sessionIx, result.winner)
              ELSE w1

\* maybePlayForBot without the look at session.isFinished: the driver logs its
\* move on whatever session its timer was set for
maybePlayForBotOnEngine(w, m, sessionIx, botMove) ==
  IF sessionIx \notin 1..Len(w.sessions[m]) \/ w.tphase = "none" THEN w
  ELSE
    LET session == w.sessions[m][sessionIx]
        currentTurn == session.currentTurn
        currentPlayerId == IF currentTurn = "player1"
                           THEN w.matches[m].player1Id ELSE w.matches[m].player2Id
    IN  IF currentPlayerId = NoPlayer \/ ~isPlayerBot(currentPlayerId) THEN w
        ELSE
          LET result ==
                IF session.isFinished
                THEN [success |-> TRUE, gameOver |-> FALSE, winner |-> "null",
                      session |-> [session EXCEPT
                                     !.moves = Append(@, currentPlayerId)]]
                ELSE submitMove(session, currentPlayerId, currentTurn, botMove)
          IN  IF ~result.success THEN w
              ELSE
                LET w1 == broadcastGameStateUpdate(
                            [w EXCEPT !.sessions[m][sessionIx] = result.session],
                            m, sessionIx)
                IN  IF result.gameOver
                    THEN handleGameEnd(scheduleBotMove(w1, m, sessionIx),
                                       m, sessionIx, result.winner)
                    ELSE IF session.isFinished THEN w1
                    ELSE scheduleBotMove(w1, m, sessionIx)

\* maybePlayForBot with the move the bot chose
maybePlayForBot(w, m, sessionIx, botMove) ==
  IF sessionIx \notin 1..Len(w.sessions[m]) \/ w.sessions[m][sessionIx].isFinished
  THEN w
  ELSE IF w.tphase = "none" THEN w
  ELSE
    LET session == w.sessions[m][sessionIx]
        currentTurn == session.currentTurn
        currentPlayerId == IF currentTurn = "player1"
                           THEN w.matches[m].player1Id ELSE w.matches[m].player2Id
    IN  IF currentPlayerId = NoPlayer THEN w
        ELSE IF ~isPlayerBot(currentPlayerId) THEN w
        ELSE
          LET result == submitMove(session, currentPlayerId, currentTurn, botMove)
          IN  IF ~result.success THEN w
              ELSE
                LET w1 == [w EXCEPT !.sessions[m][sessionIx] = result.session]
                    w2 == scheduleBotMove(
                            broadcastGameStateUpdate(w1, m, sessionIx),
                            m, sessionIx)
                IN  IF result.gameOver
                    THEN handleGameEnd(w2, m, sessionIx, result.winner)
                    ELSE w2

\* ================================================================= actions
\* The server as it starts: no tournament, no connection.
NoTournament ==
  /\ tphase = "none"
  /\ players = [p \in {} |-> [isOnline |-> FALSE, isBot |-> FALSE]]
  /\ nextPlayerId = 1
  /\ matches = << >>
  /\ championId = NoPlayer
  /\ sessions = << >>
  /\ gameTimers = EmptyBag
  /\ botTimers = {}
  /\ conn = [c \in Conns |-> [open |-> FALSE, playerId |-> NoPlayer]]
  /\ playerConnections = << >>
  /\ others = << >>
  /\ out = << >>
  /\ last = NoCommand

InitEmpty == NoTournament /\ game = NoGame

\* A tournament in registration with n players: the first `humans` of them
\* joined over connections 1..humans, the others were added as bots.
Registered(n, humans) ==
  /\ tphase = "registration"
  /\ players = [p \in 1..n |-> [isOnline |-> TRUE, isBot |-> p > humans]]
  /\ nextPlayerId = n + 1
  /\ matches = << >>
  /\ championId = NoPlayer
  /\ sessions = << >>
  /\ gameTimers = EmptyBag
  /\ botTimers = {}
  /\ conn = [c \in Conns |->
               [open |-> TRUE, playerId |-> IF c <= humans THEN c ELSE NoPlayer]]
  /\ playerConnections = [p \in 1..humans |-> p]
  /\ others = << >>
  /\ out = << >>
  /\ game = NoGame
  /\ last = NoCommand

Init ==
  \E n \in 2..MaxPlayers : \E humans \in 0..n :
    humans <= MaxConns /\ Registered(n, humans)

\* the handlers' writes to the game-flow part of the state
SetWorld(w) ==
  /\ tphase' = w.tphase
  /\ matches' = w.matches
  /\ championId' = w.championId
  /\ sessions' = w.sessions
  /\ gameTimers' = w.gameTimers
  /\ botTimers' = w.botTimers
  /\ out' = w.out

AddPlayers(ps, ids, isBot) ==
  [p \in DOMAIN ps \cup ids |->
     IF p \in ids THEN [isOnline |-> TRUE, isBot |-> isBot] ELSE ps[p]]

\* setPlayerOnlineStatus dropping the player that goes offline
setPlayerOnlineStatusOrDrop(ps, playerId, isOnline) ==
  IF playerId \notin DOMAIN ps THEN ps
  ELSE IF isOnline THEN [ps EXCEPT ![playerId].isOnline = TRUE]
  ELSE [p \in DOMAIN ps \ {playerId} |-> ps[p]]

\* TournamentManager.setPlayerOnlineStatus
setPlayerOnlineStatus(ps, playerId, isOnline) ==
  IF playerId \in DOMAIN ps
  THEN [ps EXCEPT ![playerId].isOnline = isOnline] ELSE ps

\* removePlayer deleting the player in every phase
removePlayerInAnyPhase(ps, phase, playerId) ==
  IF playerId \notin DOMAIN ps THEN ps
  ELSE [p \in DOMAIN ps \ {playerId} |-> ps[p]]

\* TournamentManager.removePlayer, by the phase of the tournament
removePlayer(ps, phase, playerId) ==
  IF playerId \notin DOMAIN ps THEN ps
  ELSE IF phase = "registration"
  THEN [p \in DOMAIN ps \ {playerId} |-> ps[p]]
  ELSE [ps EXCEPT ![playerId].isOnline = FALSE]

\* addPlayer registering the player before it looks at the phase
addPlayerBeforePhaseCheck(ps, phase, existingPlayerId, newId) ==
  IF phase # "registration"
  THEN [player |-> NoPlayer, players |-> AddPlayers(ps, {newId}, FALSE)]
  ELSE IF existingPlayerId # NoPlayer /\ existingPlayerId \in DOMAIN ps
  THEN [player |-> existingPlayerId,
        players |-> [ps EXCEPT ![existingPlayerId].isOnline = TRUE]]
  ELSE [player |-> newId, players |-> AddPlayers(ps, {newId}, FALSE)]

\* TournamentManager.addPlayer: the player returned (NoPlayer for null) and
\* the players after it.  newId is the id generateId would hand out.
addPlayer(ps, phase, existingPlayerId, newId) ==
  IF phase # "registration"
  THEN [player |-> NoPlayer, players |-> ps]
  ELSE IF existingPlayerId # NoPlayer /\ existingPlayerId \in DOMAIN ps
  THEN [player |-> existingPlayerId,
        players |-> [ps EXCEPT ![existingPlayerId].isOnline = TRUE]]
  ELSE [player |-> newId, players |-> AddPlayers(ps, {newId}, FALSE)]

\* Map.set and Map.delete on playerConnections
MapSet(map, key, value) ==
  [k \in DOMAIN map \cup {key} |-> IF k = key THEN value ELSE map[k]]

MapDelete(map, key) == [k \in DOMAIN map \ {key} |-> map[k]]

\* A connection id is never handed out twice, so an entry that names a closed
\* connection resolves to undefined for good: it is dropped with the
\* connection, and the connection's number stands for a new id when it opens
\* again.
DropConnection(map, c) ==
  [k \in { j \in DOMAIN map : map[j] # c } |-> map[k]]

\* getPlayerConnection: the connection playerConnections names for the
\* player if connections still holds it; the empty set for undefined
getPlayerConnection(playerId) ==
  IF playerId \notin DOMAIN playerConnections THEN {}
  ELSE { c \in {playerConnections[playerId]} : conn[c].open }

handleOpen(c) ==
  /\ ~conn[c].open
  /\ conn' = [conn EXCEPT ![c] = [open |-> TRUE, playerId |-> NoPlayer]]
  /\ UNCHANGED playerConnections
  /\ last' = NoCommand
  /\ UNCHANGED coreVars

handleClose(c) ==
  /\ conn[c].open
  /\ players' = IF conn[c].playerId # NoPlayer
                THEN setPlayerOnlineStatus(players, conn[c].playerId, FALSE)
                ELSE players
  /\ playerConnections' =
       DropConnection(IF conn[c].playerId # NoPlayer
                      THEN MapDelete(playerConnections, conn[c].playerId)
                      ELSE playerConnections, c)
  /\ conn' = [conn EXCEPT ![c] = [open |-> FALSE, playerId |-> NoPlayer]]
  /\ last' = NoCommand
  /\ UNCHANGED << tphase, nextPlayerId, matches, championId, sessions,
                  gameTimers, botTimers, others, out, game >>

\* join_tournament; existingPlayerId is the playerId of the message, if any.
\* getOrCreateTournamentForGame hands out the first tournament of the game that
\* is not finished: this one while it is not finished, created here when there
\* is none.  A join after it has finished reaches another tournament and is
\* not followed.
handleJoinTournament(c, existingPlayerId) ==
  /\ conn[c].open
  /\ tphase # "finished"
  /\ LET phase == IF tphase = "none" THEN "registration" ELSE tphase
         r == addPlayer(players, phase, existingPlayerId, nextPlayerId)
     IN  /\ r.player = nextPlayerId => nextPlayerId <= MaxPlayers
         /\ tphase' = phase
         /\ IF r.player = NoPlayer
            THEN /\ last' = Reply("join_tournament", "JOIN_FAILED")
                 /\ players' = r.players
                 /\ UNCHANGED << nextPlayerId, conn, playerConnections >>
            ELSE /\ players' = setPlayerOnlineStatus(r.players, r.player, TRUE)
                 /\ nextPlayerId' = IF r.player = nextPlayerId
                                    THEN nextPlayerId + 1 ELSE nextPlayerId
                 /\ conn' = [conn EXCEPT ![c].playerId = r.player]
                 /\ playerConnections' =
                      MapSet(playerConnections, r.player, c)
                 /\ last' = Reply("join_tournament", "ok")
  /\ UNCHANGED << matches, championId, sessions, gameTimers, botTimers,
                  others, out, game >>

\* ready_for_match; m = NoMatch stands for an id no match has
handleReadyForMatch(c, m) ==
  /\ conn[c].open
  /\ LET playerId == conn[c].playerId
     IN  IF playerId = NoPlayer
         THEN /\ last' = Reply("ready_for_match", "NOT_IN_TOURNAMENT")
              /\ UNCHANGED coreVars
         ELSE IF m \notin 1..Len(matches)
         THEN /\ last' = Reply("ready_for_match", "MATCH_NOT_FOUND")
              /\ UNCHANGED coreVars
         ELSE IF matches[m].player1Id # playerId /\ matches[m].player2Id # playerId
         THEN /\ last' = Reply("ready_for_match", "NOT_IN_MATCH")
              /\ UNCHANGED coreVars
         ELSE /\ SetWorld(startMatchAndNotify(World, m))
              /\ last' = Reply("ready_for_match", "ok")
              /\ UNCHANGED << players, nextPlayerId, others, game >>
  /\ UNCHANGED << conn, playerConnections >>

\* the moves a client may send for a match, cut where the bounds end the game
OfferedMoves(m) ==
  LET ix == IF m \in 1..Len(matches) THEN getActiveSessionForMatch(World, m) ELSE 0
  IN  IF ix = 0 THEN {"place"}
      ELSE LET session == sessions[m][ix]
           IN  {"illegal"}
               \cup (IF Len(session.moves) >= 1 THEN {"capture"} ELSE {})
               \cup (IF Len(session.moves) < MaxMoves THEN {"place"} ELSE {})
               \cup (IF session.state.passCount = 0
                        \/ matches[m].currentGame < MaxGames
                     THEN {"pass"} ELSE {})

\* submit_move
handleSubmitMove(c, m, move) ==
  /\ conn[c].open
  /\ move \in OfferedMoves(m)
  /\ LET playerId == conn[c].playerId
     IN  IF playerId = NoPlayer
         THEN /\ last' = Reply("submit_move", "NOT_IN_TOURNAMENT")
              /\ UNCHANGED coreVars
         ELSE IF m \notin 1..Len(matches)
         THEN /\ last' = Reply("submit_move", "MATCH_NOT_FOUND")
              /\ UNCHANGED coreVars
         ELSE IF matches[m].player1Id # playerId /\ matches[m].player2Id # playerId
         THEN /\ last' = Reply("submit_move", "NOT_IN_MATCH")
              /\ UNCHANGED coreVars
         ELSE
           LET playerRole == IF matches[m].player1Id = playerId
                             THEN "player1" ELSE "player2"
               ix == getActiveSessionForMatch(World, m)
           IN  IF ix = 0
               THEN /\ last' = Reply("submit_move", "NO_ACTIVE_GAME")
                    /\ UNCHANGED coreVars
               ELSE
                 LET result == submitMove(sessions[m][ix], playerId, playerRole, move)
                     w1 == [World EXCEPT !.sessions[m][ix] = result.session]
                 IN  IF ~result.success
                     THEN /\ last' = Reply("submit_move", "INVALID_MOVE")
                          /\ SetWorld(w1)
                          /\ UNCHANGED << players, nextPlayerId, others, game >>
                     ELSE /\ SetWorld(
                            LET w2 == broadcastGameStateUpdate(w1, m, ix)
                            IN  IF result.gameOver
                                THEN handleGameEnd(w2, m, ix, result.winner)
                                ELSE scheduleBotMove(w2, m, ix))
                          /\ last' = Reply("submit_move", "ok")
                          /\ UNCHANGED << players, nextPlayerId, others, game >>
  /\ UNCHANGED << conn, playerConnections >>

\* the message submit_move{matchId, gameNumber, move} on connection c:
\* handleSubmitMove reads msg.matchId and msg.move and never msg.gameNumber
SubmitMove(c, m, gameNumber, move) == handleSubmitMove(c, m, move)

\* leave_tournament
handleLeaveTournament(c) ==
  /\ conn[c].open
  /\ IF conn[c].playerId = NoPlayer
     THEN UNCHANGED << players, conn, playerConnections >>
     ELSE /\ players' = removePlayer(players, tphase, conn[c].playerId)
          /\ playerConnections' =
               MapDelete(playerConnections, conn[c].playerId)
          /\ conn' = [conn EXCEPT ![c].playerId = NoPlayer]
  /\ last' = Reply("leave_tournament", "ok")
  /\ UNCHANGED << tphase, nextPlayerId, matches, championId, sessions,
                  gameTimers, botTimers, others, out, game >>

\* ------------------------------------------------------------------- admin
\* spec: addBots succeeds only in registration and inserts count bot players,
\* online, with fresh ids
addBotPlayers(ps, phase, firstId, count) ==
  IF phase # "registration" THEN ps
  ELSE AddPlayers(ps, firstId..(firstId + count - 1), TRUE)

\* TournamentManager.createTournament, as the later tournaments are kept
createTournament ==
  [phase |-> "registration", playerCount |-> 0]

\* POST /admin/api/tournaments, for the game of this tournament: the first
\* tournament created is the one followed in full, the later ones join others
AdminCreate(botCount) ==
  /\ IF tphase = "none"
     THEN /\ nextPlayerId + botCount - 1 <= MaxPlayers
          /\ tphase' = "registration"
          /\ players' = addBotPlayers(players, "registration", nextPlayerId, botCount)
          /\ nextPlayerId' = nextPlayerId + botCount
          /\ UNCHANGED others
     ELSE /\ Len(others) < MaxOthers
          /\ others' = Append(others,
                          [createTournament EXCEPT !.playerCount = botCount])
          /\ UNCHANGED << tphase, players, nextPlayerId >>
  /\ last' = NoCommand
  /\ UNCHANGED << matches, championId, sessions, gameTimers, botTimers, conn, playerConnections,
                  out, game >>

\* POST /admin/api/tournaments/:id/bots
AdminAddBots(count) ==
  /\ tphase # "none"
  /\ tphase = "registration" => nextPlayerId + count - 1 <= MaxPlayers
  /\ players' = addBotPlayers(players, tphase, nextPlayerId, count)
  /\ nextPlayerId' = IF tphase = "registration"
                     THEN nextPlayerId + count ELSE nextPlayerId
  /\ last' = Reply("bots", IF players' # players THEN "ok" ELSE "error")
  /\ UNCHANGED << tphase, matches, championId, sessions, gameTimers,
                  botTimers, conn, playerConnections, others, out, game >>

\* startTournament without the look at the phase
startTournamentInAnyPhase(w, shuffled) ==
  IF Len(shuffled) < 2 THEN [success |-> FALSE, w |-> w]
  ELSE LET bracket == createDoubleEliminationBracket(shuffled)
       IN  [success |-> TRUE,
            w |-> [w EXCEPT !.matches = bracket,
                            !.sessions = [m \in 1..Len(bracket) |-> << >>],
                            !.out = [m \in 1..Len(bracket) |-> << >>],
                            !.tphase = "running"]]

\* TournamentManager.startTournament with the order the shuffle produced
startTournament(w, shuffled) ==
  IF w.tphase # "registration" THEN [success |-> FALSE, w |-> w]
  ELSE IF Len(shuffled) < 2 THEN [success |-> FALSE, w |-> w]
  ELSE LET bracket == createDoubleEliminationBracket(shuffled)
       IN  [success |-> TRUE,
            w |-> [w EXCEPT !.matches = bracket,
                            !.sessions = [m \in 1..Len(bracket) |-> << >>],
                            !.out = [m \in 1..Len(bracket) |-> << >>],
                            !.tphase = "running"]]

\* POST /admin/api/tournaments/:id/start
AdminStart(shuffled) ==
  /\ tphase # "none"
  /\ LET r == startTournament(World, shuffled)
     IN  /\ SetWorld(IF r.success
                     THEN StartEach(r.w, getMatchesReadyToStart(r.w), FALSE)
                     ELSE World)
         /\ last' = Reply("start", IF r.success THEN "ok" ELSE "error")
  /\ UNCHANGED << players, nextPlayerId, conn, playerConnections, others, game >>

\* POST /admin/api/tournaments/:id/finish
AdminFinish ==
  /\ tphase # "none"
  /\ SetWorld(finishTournament(World))
  /\ last' = NoCommand
  /\ UNCHANGED << players, nextPlayerId, conn, playerConnections, others, game >>

\* startTournament and finishTournament on one of the later tournaments
startOther(t) ==
  IF t.phase # "registration" THEN t
  ELSE IF t.playerCount < 2 THEN t
  ELSE [t EXCEPT !.phase = "running"]

finishOther(t) == [t EXCEPT !.phase = "finished"]

AdminStartOther(i) ==
  /\ i \in 1..Len(others)
  /\ others' = [others EXCEPT ![i] = startOther(@)]
  /\ last' = Reply("start_other", IF others'[i] # others[i] THEN "ok" ELSE "error")
  /\ UNCHANGED << tphase, players, nextPlayerId, matches, championId, sessions,
                  gameTimers, botTimers, conn, playerConnections, out, game >>

AdminFinishOther(i) ==
  /\ i \in 1..Len(others)
  /\ others' = [others EXCEPT ![i] = finishOther(@)]
  /\ last' = NoCommand
  /\ UNCHANGED << tphase, players, nextPlayerId, matches, championId, sessions,
                  gameTimers, botTimers, conn, playerConnections, out, game >>

\* ------------------------------------------------------------------ timers
\* the timer handleGameEnd sets for the next game of a match
\* (2000 ms): every bot timer of the match was set no later, for 200 or 300 ms,
\* and has fired by then.
NextGameTimer(m) ==
  /\ BagIn(m, gameTimers)
  /\ \A t \in botTimers : t[1] # m
  /\ LET w == [World EXCEPT !.gameTimers = @ (-) SetToBag({m})]
     IN  SetWorld(IF m \in 1..Len(w.matches) /\ w.matches[m].phase = "playing"
                  THEN startGameInMatch(w, m) ELSE w)
  /\ last' = NoCommand
  /\ UNCHANGED << players, nextPlayerId, conn, playerConnections, others, game >>

\* a scheduleBotMove timer fires
BotTimer(m, sessionIx) ==
  /\ <<m, sessionIx>> \in botTimers
  /\ LET w == [World EXCEPT !.botTimers = @ \ {<<m, sessionIx>>}]
         live == /\ sessionIx \in 1..Len(sessions[m])
                 /\ ~sessions[m][sessionIx].isFinished
     IN  \E botMove \in (IF live THEN BotMoves(sessions[m][sessionIx])
                         ELSE {"place"}) :
           SetWorld(maybePlayForBot(w, m, sessionIx, botMove))
  /\ last' = NoCommand
  /\ UNCHANGED << players, nextPlayerId, conn, playerConnections, others, game >>

\* ----------------------------------------------------------- specification
Timers ==
  \/ \E m \in 1..Len(matches) : NextGameTimer(m)
  \/ \E m \in 1..Len(matches) : \E ix \in 1..MaxGames : BotTimer(m, ix)

\* Clients and the administrator on a tournament of at most MaxPlayers
\* players.  A join carries no playerId or the one the connection holds.
Next ==
  \/ \E c \in Conns : \E e \in {NoPlayer, conn[c].playerId} :
       handleJoinTournament(c, e)
  \/ \E c \in Conns : \E m \in 0..Len(matches) : handleReadyForMatch(c, m)
  \/ \E c \in Conns : \E m \in 0..Len(matches) :
       \E gameNumber \in 1..MaxGames :
         \E move \in {"illegal", "place", "capture", "pass"} :
           SubmitMove(c, m, gameNumber, move)
  \/ \E shuffled \in Shuffles(DOMAIN players) : AdminStart(shuffled)
  \/ Timers

Spec == Init /\ [][Next]_vars

\* Tournaments of bots only, 2..MaxBots of them, started by the administrator
\* and played by the bot driver.  The bots are alike, so two shuffles stand
\* for all: the ids ascending and descending.
InitBots == \E n \in 2..MaxBots : Registered(n, 0)

BotShuffles ==
  LET n == Cardinality(DOMAIN players)
  IN  { [i \in 1..n |-> i], [i \in 1..n |-> n + 1 - i] }

NextBots ==
  \/ \E shuffled \in BotShuffles : AdminStart(shuffled)
  \/ Timers

SpecBots == InitBots /\ [][NextBots]_vars

\* A timer step is possible exactly while a timer is pending: a firing timer
\* leaves its queue, and a game timer held back by a bot timer of its match
\* leaves that bot timer to fire.
TimerPending == botTimers # {} \/ gameTimers # EmptyBag

\* The tournaments of bots with their timers: while a timer is pending, a
\* timer fires.  This is weak fairness of Timers, with the enabling condition
\* of a timer step written as TimerPending.  Every timer that fires is spent,
\* so none waits for ever.
TimersFire == []<>(~TimerPending) \/ []<><<Timers>>_vars

SpecBotsFair == SpecBots /\ TimersFire

\* A tournament of one client and one bot imported as it stands before its
\* grand final: the first round is over 2-0, its winner waits in the grand
\* final as player 1 and the snapshot seats the other player as player 2.
PlayedFirstRound(shuffled, winnerId) ==
  LET w0 == startTournament([tphase |-> "registration", matches |-> << >>,
                             championId |-> NoPlayer, sessions |-> << >>,
                             gameTimers |-> EmptyBag, botTimers |-> {},
                             out |-> << >>],
                            shuffled).w
      w1 == startMatch(w0, 1).w
      w2 == recordGameResult(w1, 1, winnerId).w
  IN  recordGameResult(w2, 1, winnerId).w

FinalSnapshot(shuffled, winnerId) ==
  LET w == PlayedFirstRound(shuffled, winnerId)
  IN  [w EXCEPT !.matches[GrandFinal(w)].player2Id = w.matches[1].loserId]

\* TournamentManager.importTournament: the tournament is what the data says
importTournament(w, data) ==
  [w EXCEPT !.tphase = data.tphase,
            !.matches = data.matches,
            !.championId = data.championId]

InitFinal ==
  \E shuffled \in Shuffles(1..2) : \E winnerId \in 1..2 :
    LET data == FinalSnapshot(shuffled, winnerId)
        w == importTournament(data, data)
        humans == 1
    IN  /\ tphase = w.tphase
        /\ players = [p \in 1..2 |-> [isOnline |-> TRUE, isBot |-> p > humans]]
        /\ nextPlayerId = 3
        /\ matches = w.matches
        /\ championId = w.championId
        /\ sessions = w.sessions
        /\ gameTimers = EmptyBag
        /\ botTimers = {}
        /\ conn = [c \in Conns |->
                     [open |-> TRUE,
                      playerId |-> IF c <= humans THEN c ELSE NoPlayer]]
        /\ playerConnections = [p \in 1..humans |-> p]
        /\ others = << >>
        /\ out = w.out
        /\ game = NoGame
        /\ last = NoCommand

NextFinal ==
  \/ \E c \in Conns : \E m \in 0..Len(matches) : handleReadyForMatch(c, m)
  \/ \E c \in Conns : \E m \in 0..Len(matches) :
       \E gameNumber \in 1..MaxGames :
         \E move \in {"illegal", "place", "capture", "pass"} :
           SubmitMove(c, m, gameNumber, move)
  \/ Timers

SpecFinal == InitFinal /\ [][NextFinal]_vars

\* Clients and the administrator as in Spec, on a tournament the
\* administrator may finish at any time.
NextFinish ==
  \/ Next
  \/ AdminFinish

SpecFinish == Init /\ [][NextFinish]_vars

\* The server from its start: clients connect, join, leave and disconnect,
\* the administrator creates tournaments, adds bots, starts and finishes
\* them, and the bot driver plays the matches of bots.  A join carries no
\* playerId or that of any player of the tournament.
InitAdmin == InitEmpty

NextAdmin ==
  \/ \E c \in Conns : handleOpen(c)
  \/ \E c \in Conns : handleClose(c)
  \/ \E c \in Conns : \E e \in {NoPlayer} \cup DOMAIN players :
       handleJoinTournament(c, e)
  \/ \E c \in Conns : handleLeaveTournament(c)
  \/ \E botCount \in 0..MaxPlayers : AdminCreate(botCount)
  \/ \E count \in 1..MaxPlayers : AdminAddBots(count)
  \/ \E shuffled \in Shuffles(DOMAIN players) : AdminStart(shuffled)
  \/ AdminFinish
  \/ \E i \in 1..MaxOthers : AdminStartOther(i)
  \/ \E i \in 1..MaxOthers : AdminFinishOther(i)
  \/ Timers

SpecAdmin == InitAdmin /\ [][NextAdmin]_vars

\* ================================================================== claims
MatchIds == 1..Len(matches)

IsGrandFinal(m) == m = GrandFinal(World) \/ m = GrandFinalReset(World)

HasBothPlayers(match) ==
  match.player1Id # NoPlayer /\ match.player2Id # NoPlayer

\* the slots of matches after m that hold player p
SlotsAfter(ms, m, p) ==
  { <<k, "player1">> : k \in { j \in (m + 1)..Len(ms) : ms[j].player1Id = p } }
  \cup { <<k, "player2">> : k \in { j \in (m + 1)..Len(ms) : ms[j].player2Id = p } }

\* match m is finished after this step and was not before it
Finishes(m) ==
  /\ m \in 1..Len(matches')
  /\ matches'[m].phase = "finished"
  /\ (m \in MatchIds => matches[m].phase # "finished")

\* C1: a started tournament whose ready matches are all started and whose
\* games all end with a winner goes on to its grand final and finishes with a
\* champion.  Until it has finished there must then be something left to
\* play: a match in play, or one waiting with both slots filled.
C1_RunningTournamentCanGoOn ==
  tphase = "running" =>
    \E m \in MatchIds :
      \/ matches[m].phase = "playing"
      \/ matches[m].phase = "waiting" /\ HasBothPlayers(matches[m])

\* C2: whenever a winners-bracket match other than the grand final and its
\* reset has finished with a loser, that loser sits in a slot of a
\* losers-bracket match.
C2_LoserDropsToLosersBracket ==
  \A m \in MatchIds :
    ( /\ matches[m].bracket = "winners"
      /\ ~IsGrandFinal(m)
      /\ matches[m].phase = "finished"
      /\ matches[m].loserId # NoPlayer )
    => \E l \in MatchIds :
         /\ matches[l].bracket = "losers"
         /\ matches[m].loserId \in {matches[l].player1Id, matches[l].player2Id}

TopScore(match) ==
  IF match.p1Wins >= match.p2Wins THEN match.p1Wins ELSE match.p2Wins

WinsNeeded == CeilHalf(BestOf)

\* a first-round match the bracket was built with one player in
IsBye(match) ==
  /\ match.bracket = "winners"
  /\ match.round = 1
  /\ (match.player1Id = NoPlayer) # (match.player2Id = NoPlayer)

\* C4 as stated: no player of a match ever has more than two wins, and a
\* match is finished exactly when one of its players has two.
C4_FinishedExactlyAtTwoWins ==
  \A m \in MatchIds :
    /\ TopScore(matches[m]) <= WinsNeeded
    /\ matches[m].phase = "finished" <=> TopScore(matches[m]) = WinsNeeded

\* C4 amended: no player of a match ever has more than two wins; a bye is
\* finished from the start with no game played, and every other match is
\* finished exactly when one of its players has two wins.
C4_FinishedAtTwoWinsOrBye ==
  \A m \in MatchIds :
    /\ TopScore(matches[m]) <= WinsNeeded
    /\ IsBye(matches[m]) =>
         matches[m].phase = "finished" /\ TopScore(matches[m]) = 0
    /\ ~IsBye(matches[m]) =>
         (matches[m].phase = "finished" <=> TopScore(matches[m]) = WinsNeeded)

\* a bye stands finished beside a match that was played to two wins
C4_Witness ==
  /\ \E m \in MatchIds : IsBye(matches[m]) /\ matches[m].phase = "finished"
  /\ \E m \in MatchIds :
       /\ matches[m].phase = "finished"
       /\ TopScore(matches[m]) = WinsNeeded
       /\ matches[m].p1Wins + matches[m].p2Wins = BestOf

\* the winner of a finished match is still seated where the match sent it
C7_WinnerKeepsSeat ==
  \A m \in MatchIds :
    ( /\ ~IsGrandFinal(m)
      /\ matches[m].phase = "finished"
      /\ matches[m].winnerId # NoPlayer )
    => /\ matches[m].winnerGoesToMatchId \in MatchIds
       /\ (matches[matches[m].winnerGoesToMatchId].player1Id = matches[m].winnerId)
            # (matches[matches[m].winnerGoesToMatchId].player2Id = matches[m].winnerId)

\* the step that finishes a match seats its winner and its loser
C7_SeatedOnFinish ==
  \A m \in 1..Len(matches') :
    (Finishes(m) /\ m < Len(matches') - 1)
    => LET match == matches'[m]
       IN  /\ match.winnerId # NoPlayer
           /\ Cardinality(SlotsAfter(matches', m, match.winnerId)) = 1
           /\ match.loserId # NoPlayer =>
                /\ Cardinality(SlotsAfter(matches', m, match.loserId)) <= 1
                /\ match.loserGoesToMatchId # NoMatch =>
                     SlotsAfter(matches', m, match.loserId)
                       \subseteq {match.loserGoesToMatchId} \X Roles
                /\ match.loserGoesToMatchId # NoMatch =>
                     SlotsAfter(matches', m, match.loserId) # {}

\* C7: when a match other than the grand final (and its reset) finishes, its
\* winner holds exactly one slot of exactly one later match and its loser at
\* most one; nobody who advances is dropped because the target match is full,
\* and the winner keeps the seat.
C7_AdvancementComplete ==
  []C7_WinnerKeepsSeat /\ [][C7_SeatedOnFinish]_vars

\* a losers-bracket match is over and its winner has moved on
C7_Witness ==
  \E m \in MatchIds :
    /\ matches[m].bracket = "losers"
    /\ matches[m].phase = "finished"
    /\ Cardinality(SlotsAfter(matches, m, matches[m].winnerId)) = 1
    /\ \E w \in MatchIds :
         /\ matches[w].bracket = "winners"
         /\ matches[w].loserId = matches[m].loserId
         /\ matches[w].loserId # NoPlayer

\* ------------------------------------------------------------ grand final
ChampionUnset == championId = NoPlayer

\* the grand final was won by its player 1, the winners-bracket champion
WonByWinnersChampion(match) ==
  match.phase = "finished" /\ match.winnerId = match.player1Id

C3_Standing ==
  LET final == matches[GrandFinal(World)]
      reset == matches[GrandFinalReset(World)]
  IN  /\ WonByWinnersChampion(final) =>
           /\ championId = final.winnerId
           /\ tphase = "finished"
           /\ reset.phase = "waiting"
           /\ reset.player1Id = NoPlayer /\ reset.player2Id = NoPlayer
      /\ (~WonByWinnersChampion(final) /\ reset.phase # "finished") =>
           ChampionUnset /\ tphase = "running"
      /\ (final.phase = "finished" /\ ~WonByWinnersChampion(final)) =>
           /\ reset.player1Id = final.player1Id
           /\ reset.player2Id = final.player2Id
      /\ reset.phase = "finished" =>
           /\ championId = reset.winnerId
           /\ reset.winnerId \in {final.player1Id, final.player2Id}
           /\ tphase = "finished"

C3_OnFinish ==
  /\ Finishes(GrandFinal(World)) =>
       LET final == matches'[GrandFinal(World)]
           reset == matches'[GrandFinalReset(World)]
       IN  IF final.winnerId = final.player1Id
           THEN /\ championId' = final.winnerId
                /\ tphase' = "finished"
                /\ reset = matches[GrandFinalReset(World)]
           ELSE /\ championId' = NoPlayer
                /\ reset.player1Id = final.player1Id
                /\ reset.player2Id = final.player2Id
  /\ Finishes(GrandFinalReset(World)) =>
       /\ championId' = matches'[GrandFinalReset(World)].winnerId
       /\ tphase' = "finished"

\* C3: when the grand final finishes with the winners-bracket champion as its
\* winner, that player becomes champion and the tournament is finished with
\* the reset left unplayed; otherwise the reset receives the same two
\* players, there is no champion until the reset finishes, and the winner of
\* the reset is then the champion.
C3_GrandFinalDecides ==
  []C3_Standing /\ [][C3_OnFinish]_vars

\* the reset has been played to its end
C3_Witness ==
  /\ matches[GrandFinalReset(World)].phase = "finished"
  /\ matches[GrandFinal(World)].winnerId = matches[GrandFinal(World)].player2Id
  /\ championId = matches[GrandFinalReset(World)].winnerId
  /\ championId # NoPlayer

\* ------------------------------------------------------------------ games
\* C5: until a match finishes its currentGame is at most bestOf, whatever the
\* results of its games, draws included; no session has a game number above
\* bestOf.
C5_GamesWithinBestOf ==
  \A m \in MatchIds :
    /\ matches[m].phase # "finished" => matches[m].currentGame <= BestOf
    /\ \A ix \in 1..Len(sessions[m]) : sessions[m][ix].gameNumber <= BestOf

StartingRole(g) == IF g % 2 = 1 THEN "player1" ELSE "player2"

RoleOf(match, playerId) ==
  IF match.player1Id = playerId THEN "player1" ELSE "player2"

\* C6: the starting role of game g of a match is player 1 when g is odd and
\* player 2 when g is even, whoever won the earlier games and whether or not
\* they were drawn; the session of game g begins with that role to move, and
\* the first move of its log is that role's.
C6_StartingRoleAlternates ==
  \A m \in MatchIds :
    /\ matches[m].currentGame >= 1 =>
         matches[m].whoStartsCurrentGame = StartingRole(matches[m].currentGame)
    /\ \A ix \in 1..Len(sessions[m]) :
         LET session == sessions[m][ix]
         IN  /\ session.gameNumber = ix
             /\ session.moves = << >> =>
                  /\ session.currentTurn = StartingRole(session.gameNumber)
                  /\ getCurrentTurn(session.state) = StartingRole(session.gameNumber)
             /\ session.moves # << >> =>
                  RoleOf(matches[m], session.moves[1])
                    = StartingRole(session.gameNumber)

\* game 3 is under way after a drawn game 1 and a won game 2
C6_Witness ==
  \E m \in MatchIds :
    /\ Len(sessions[m]) >= 3
    /\ getWinner(sessions[m][1].state) = "draw"
    /\ getWinner(sessions[m][2].state) \in Roles
    /\ sessions[m][3].moves # << >>

\* ------------------------------------------------------------------ moves
\* a session's log grows in this step by one move, of the role whose turn it was
LogGrowsByTurnHolder(m, ix) ==
  LET old == sessions[m][ix]
      new == sessions'[m][ix]
  IN  /\ ~old.isFinished
      /\ Len(new.moves) = Len(old.moves) + 1
      /\ SubSeq(new.moves, 1, Len(old.moves)) = old.moves
      /\ RoleOf(matches[m], new.moves[Len(new.moves)]) = old.currentTurn

SessionKept(m, ix) ==
  /\ m \in 1..Len(sessions')
  /\ ix \in 1..Len(sessions'[m])

C8_OnMove ==
  /\ \A m \in 1..Len(sessions) : \A ix \in 1..Len(sessions[m]) :
       (SessionKept(m, ix) /\ sessions'[m][ix] # sessions[m][ix])
         => LogGrowsByTurnHolder(m, ix)
  /\ (last'.cmd = "submit_move" /\ last'.code = "ok") =>
       \E m \in 1..Len(sessions) : \E ix \in 1..Len(sessions[m]) :
         /\ ~sessions[m][ix].isFinished
         /\ SessionKept(m, ix) => LogGrowsByTurnHolder(m, ix)
  /\ (last'.cmd = "submit_move" /\ last'.code # "ok") =>
       /\ last'.code \in ErrorCodes
       /\ UNCHANGED coreVars

\* C8: whatever the order in which the moves of the two players of a match
\* arrive, a move is applied only if its sender's role is the session's turn
\* when it is processed; any other move is answered with an error and changes
\* nothing.
C8_OnlyTheTurnHolderMoves == [][C8_OnMove]_vars

\* a move was refused in a game that has moves in its log
C8_Witness ==
  /\ last = Reply("submit_move", "INVALID_MOVE")
  /\ \E m \in MatchIds : \E ix \in 1..Len(sessions[m]) :
       ~sessions[m][ix].isFinished /\ Len(sessions[m][ix].moves) >= 1

\* C9: a command answered NOT_IN_TOURNAMENT, MATCH_NOT_FOUND, NOT_IN_MATCH,
\* NO_ACTIVE_GAME, INVALID_MOVE or JOIN_FAILED leaves the tournament, its
\* players, matches, scores and sessions (and the pending timers) as they
\* were before the command.
C9_ErrorsChangeNothing ==
  [][last'.code \in ErrorCodes => UNCHANGED coreVars]_vars

\* a join was refused by a tournament that has games in hand
C9_Witness ==
  /\ last = Reply("join_tournament", "JOIN_FAILED")
  /\ tphase = "running"
  /\ \E m \in MatchIds : sessions[m] # << >>

C10_FinishedSessionStays ==
  \A m \in 1..Len(sessions) : \A ix \in 1..Len(sessions[m]) :
    (sessions[m][ix].isFinished /\ SessionKept(m, ix))
      => sessions'[m][ix] = sessions[m][ix]

\* C10: once a session is finished, no later move of a player or of the bot
\* driver appends to its log or changes its state or its turn.
C10_NoMoveAfterFinish == [][C10_FinishedSessionStays]_vars

\* a player's move found only a finished session, whose bot timer has fired
C10_Witness ==
  /\ last = Reply("submit_move", "NO_ACTIVE_GAME")
  /\ \E m \in MatchIds : \E ix \in 1..Len(sessions[m]) :
       /\ sessions[m][ix].isFinished
       /\ <<m, ix>> \notin botTimers
       /\ isPlayerBot(sessions[m][ix].moves[Len(sessions[m][ix].moves)])

\* --------------------------------------------------------------- sessions
\* the sessions of a match that are not finished
ActiveSessions(m) ==
  { ix \in 1..Len(sessions[m]) : ~sessions[m][ix].isFinished }

Begins(m) ==
  /\ m \in 1..Len(matches')
  /\ matches'[m].phase = "playing"
  /\ (m \in MatchIds => matches[m].phase = "waiting")

\* a player of the match is a client, who has to signal readiness itself
HasClient(match) ==
  ~isPlayerBot(match.player1Id) \/ ~isPlayerBot(match.player2Id)

\* C12: a waiting match begins only after both of its players have signalled
\* readiness, a bot counting as ready from its assignment.  A match with a
\* client among its players can then begin only in a step that handles a
\* ready_for_match of one of its players.
C12_BeginsOnlyOnReady ==
  [][\A m \in 1..Len(matches') :
       (Begins(m) /\ HasClient(matches'[m]))
         => last' = Reply("ready_for_match", "ok")]_vars

\* ------------------------------------------------------------ reconnection
\* C13: a join that carries the id of a player already in the tournament
\* marks that player online and returns that same player in every phase of
\* the tournament, without adding a player; JOIN_FAILED is left for joins
\* that match no player when the phase is not registration.
C13_ReconnectInEveryPhase ==
  tphase # "none" =>
    \A existingPlayerId \in DOMAIN players :
      LET r == addPlayer(players, tphase, existingPlayerId, nextPlayerId)
      IN  /\ r.player = existingPlayerId
          /\ DOMAIN r.players = DOMAIN players
          /\ r.players[existingPlayerId].isOnline

\* ------------------------------------------------------------- tournaments
ActivePhases == {"registration", "running"}

\* the number of tournaments of the game that are in registration or running
ActiveTournaments ==
  (IF tphase \in ActivePhases THEN 1 ELSE 0)
  + Cardinality({ i \in 1..Len(others) : others[i].phase \in ActivePhases })

\* C14: at most one tournament of the game is in phase registration or
\* running at any time, under every sequence of joins and of the
\* administrator's create, start and finish.
C14_AtMostOneActiveTournament == ActiveTournaments <= 1

\* C15: after finish has forced the tournament to phase finished, a move that
\* arrives for one of its matches is rejected with an error and changes no
\* session, no match score and no bracket slot of the tournament.
C15_NoMoveAfterTournamentFinish ==
  [][(tphase = "finished" /\ last'.cmd = "submit_move")
       => /\ last'.code \in ErrorCodes
          /\ UNCHANGED << sessions, matches >>]_vars

\* ---------------------------------------------------------------- players
\* C16: the set of players of a tournament never gains a member while its
\* phase is running or finished.
C16_NoNewPlayerOnceStarted ==
  [][(tphase \in {"running", "finished"})
       => (DOMAIN players') \subseteq (DOMAIN players)]_vars

\* the administrator's bots were refused by a running tournament, beside a
\* connected client that is not one of its players
C16_Witness ==
  /\ tphase = "running"
  /\ last = Reply("bots", "error")
  /\ \E c \in Conns : conn[c].open /\ conn[c].playerId = NoPlayer

\* ------------------------------------------------------------------ start
\* what the bracket generator fixes of a match: its place and its links
Skeleton(ms) ==
  [m \in 1..Len(ms) |->
     [ round |-> ms[m].round, bracket |-> ms[m].bracket,
       winnerGoesToMatchId |-> ms[m].winnerGoesToMatchId,
       loserGoesToMatchId |-> ms[m].loserGoesToMatchId ]]

\* a start of this tournament was answered in this step
StartAnswered(code) == last' = Reply("start", code)

C17_OnStart ==
  /\ StartAnswered("ok") =>
       /\ tphase = "registration"
       /\ Cardinality(DOMAIN players) >= 2
       /\ matches = << >>
       /\ tphase' = "running"
       /\ Len(matches') >= 3
  /\ StartAnswered("error") =>
       /\ ~(tphase = "registration" /\ Cardinality(DOMAIN players) >= 2)
       /\ UNCHANGED << tphase, players, matches, championId, sessions >>
  /\ matches' # matches =>
       IF matches = << >>
       THEN StartAnswered("ok")
       ELSE Skeleton(matches') = Skeleton(matches)
  /\ tphase = "registration" => matches = << >>

\* C17: start succeeds only for a tournament in phase registration with at
\* least 2 players; otherwise it returns an error and leaves the phase, the
\* players and the bracket as they were.  The bracket is empty in
\* registration, is built by the one start that succeeds and is never
\* replaced afterwards.
C17_StartOnlyOnce == [][C17_OnStart]_vars

\* a second start was refused by a tournament whose matches are being played
C17_Witness ==
  /\ last = Reply("start", "error")
  /\ tphase = "running"
  /\ \E m \in MatchIds : matches[m].phase = "finished" /\ matches[m].p2Wins > 0

\* ------------------------------------------------------- finished matches
\* C18: every finished match that had both slots filled has a winner and a
\* loser that are its two distinct players; every match finished as a bye has
\* its single player as winner, no loser, the score 0-0, and is never
\* started: it has no current game, no starting role and no session.
C18_WinnerAndLoserOrBye ==
  \A m \in MatchIds :
    matches[m].phase = "finished" =>
      LET match == matches[m]
      IN  IF HasBothPlayers(match)
          THEN /\ match.player1Id # match.player2Id
               /\ match.winnerId # NoPlayer
               /\ match.loserId # NoPlayer
               /\ match.winnerId # match.loserId
               /\ {match.winnerId, match.loserId}
                    = {match.player1Id, match.player2Id}
          ELSE /\ IsBye(match)
               /\ match.winnerId # NoPlayer
               /\ match.winnerId \in {match.player1Id, match.player2Id}
               /\ match.loserId = NoPlayer
               /\ match.p1Wins = 0 /\ match.p2Wins = 0
               /\ match.currentGame = 0
               /\ match.whoStartsCurrentGame = "null"
               /\ sessions[m] = << >>

\* the winner of a bye has played its next match to the end
C18_Witness ==
  \E b \in MatchIds : \E m \in MatchIds :
    /\ IsBye(matches[b])
    /\ matches[b].phase = "finished"
    /\ matches[m].phase = "finished"
    /\ HasBothPlayers(matches[m])
    /\ matches[b].winnerId \in {matches[m].winnerId, matches[m].loserId}

Closes(c) == conn[c].open /\ ~conn'[c].open

C20_OnClose ==
  \A c \in Conns :
    Closes(c) =>
      /\ UNCHANGED << tphase, nextPlayerId, matches, championId, sessions,
                      gameTimers, botTimers, others >>
      /\ DOMAIN players' = DOMAIN players
      /\ \A p \in DOMAIN players :
           players'[p] = IF p = conn[c].playerId
                         THEN [players[p] EXCEPT !.isOnline = FALSE]
                         ELSE players[p]

\* C20: a disconnect only sets the player's online flag to false: the
\* player's match, its score, its sessions and the turn are as they were, and
\* no forfeit and no game result is recorded.
C20_DisconnectOnlyGoesOffline == [][C20_OnClose]_vars

\* every client has disconnected, one of them in a game in which it is to move
C20_Witness ==
  /\ \A c \in Conns : ~conn[c].open
  /\ \E p \in DOMAIN players : \E m \in MatchIds :
       /\ ~players[p].isBot
       /\ ~players[p].isOnline
       /\ matches[m].phase = "playing"
       /\ p \in {matches[m].player1Id, matches[m].player2Id}
       /\ matches[m].p1Wins = 0 /\ matches[m].p2Wins = 0
       /\ \E ix \in ActiveSessions(m) :
            sessions[m][ix].currentTurn = RoleOf(matches[m], p)

\* ------------------------------------------------------------------- leave
\* the client of connection c leaves its tournament in this step
Leaves(c) ==
  /\ last'.cmd = "leave_tournament"
  /\ conn[c].playerId # NoPlayer
  /\ conn'[c].playerId = NoPlayer

\* C21 as stated: a leave marks the player offline and keeps it in the
\* tournament's players, in every phase, and no player is ever taken out.
C21_LeaveKeepsPlayer ==
  [][/\ (DOMAIN players) \subseteq (DOMAIN players')
     /\ \A c \in Conns :
          (Leaves(c) /\ conn[c].playerId \in DOMAIN players)
            => ~players'[conn[c].playerId].isOnline]_vars

C21_OnLeave ==
  /\ \A c \in Conns :
       (Leaves(c) /\ conn[c].playerId \in DOMAIN players) =>
         LET p == conn[c].playerId
         IN  IF tphase = "registration"
             THEN /\ DOMAIN players' = DOMAIN players \ {p}
                  /\ \A q \in DOMAIN players' : players'[q] = players[q]
             ELSE players' = [players EXCEPT ![p].isOnline = FALSE]
  /\ (tphase \in {"running", "finished"}) =>
       (DOMAIN players) \subseteq (DOMAIN players')
  /\ (DOMAIN players) \subseteq (DOMAIN players') \/ last'.cmd = "leave_tournament"

\* C21 amended: a leave in phase registration takes the player out of the
\* tournament's players; a leave in phase running or finished marks the
\* player offline and keeps it, and from the start of the tournament on no
\* player is ever taken out.  Nothing but a leave in registration takes a
\* player out.
C21_LeaveByPhase == [][C21_OnLeave]_vars

\* a client that had joined has left during registration and is gone, while
\* another player stays
C21_Witness ==
  /\ last = Reply("leave_tournament", "ok")
  /\ tphase = "registration"
  /\ \E p \in 1..(nextPlayerId - 1) : p \notin DOMAIN players
  /\ DOMAIN players # {}

\* --------------------------------------------------------------- bot games
\* the session ix of match m is there and not finished
SessionOpen(m, ix) ==
  /\ m \in MatchIds
  /\ ix \in 1..Len(sessions[m])
  /\ ~sessions[m][ix].isFinished

\* the session ix of match m has been finished (its match may have cleared it)
SessionClosed(m, ix) ==
  \/ m \notin MatchIds
  \/ ix \notin 1..Len(sessions[m])
  \/ sessions[m][ix].isFinished

SafetyCap == 1000

\* an open session of two bots has its next bot move scheduled, every move of
\* its log is a bot's, and the log is within the safety cap
C22_DriverArmed ==
  \A m \in MatchIds : \A ix \in 1..Len(sessions[m]) :
    isBotVsBotMatch(World, m) =>
      /\ SessionOpen(m, ix) => <<m, ix>> \in botTimers
      /\ \A k \in 1..Len(sessions[m][ix].moves) :
           isPlayerBot(sessions[m][ix].moves[k])
      /\ Len(sessions[m][ix].moves) <= SafetyCap

\* from some moment on no session is open: each session that was created
\* has been finished
C22_EverySessionFinishes ==
  <>[](\A m \in MatchIds : \A ix \in 1..Len(sessions[m]) : SessionClosed(m, ix))

InCausalOrder(log) ==
  /\ Len(log) >= 1 => log[1] = GameStart(1)
  /\ \A k \in 1..(Len(log) - 1) :
       LET e == log[k]
           f == log[k + 1]
       IN  CASE e.type = "game_start" ->
                  f = GameStateUpdate(e.session, 1)
             [] e.type = "game_state_update" ->
                  f \in { GameStateUpdate(e.session, e.moves + 1),
                          GameEnd(e.session, e.moves) }
             [] e.type = "game_end" ->
                  f.type = "match_end" \/ f = GameStart(e.session + 1)
             [] e.type = "match_end" -> FALSE

\* the broadcasts made for session ix of match m
Sent(m, ix, type) ==
  { k \in 1..Len(out[m]) : out[m][k].type = type /\ out[m][k].session = ix }

\* no handler leaves a move without its game_state_update or a finished game
\* without its game_end: when the next move of the match is applied the update
\* of every earlier one has been sent
UpToDate(m) ==
  \A ix \in 1..Len(sessions[m]) :
    /\ Cardinality(Sent(m, ix, "game_start")) = 1
    /\ Cardinality(Sent(m, ix, "game_state_update")) = Len(sessions[m][ix].moves)
    /\ Cardinality(Sent(m, ix, "game_end")) =
         (IF sessions[m][ix].isFinished THEN 1 ELSE 0)

\* C23: for each match the game_state_update broadcasts are made in the
\* order the moves were applied, each before any later move of the match is
\* applied, and the game_end of a game is made after the update of its final
\* move and before the game_start of the next game.
C23_BroadcastsInCausalOrder ==
  \A m \in DOMAIN out : InCausalOrder(out[m]) /\ UpToDate(m)

\* a client's match in its second game: the first game was played to its
\* end and a move of the second has been applied
C23_Witness ==
  \E m \in DOMAIN out :
    /\ HasClient(matches[m])
    /\ Len(sessions[m]) = 2
    /\ Len(sessions[m][1].moves) >= 2
    /\ Len(sessions[m][2].moves) >= 1
    /\ Cardinality(Sent(m, 1, "game_end")) = 1
    /\ Cardinality(Sent(m, 2, "game_state_update")) >= 1

\* ============================================================ game engines
\* The engines of the games, each played on its own: a game is a position of
\* one engine, the move tried last on it and the number of moves tried.  A
\* move is tried as GameSession.submitMove tries it: validateMove, and
\* applyMove when it was accepted.
serverVars == << tphase, players, nextPlayerId, matches, championId, sessions,
                 gameTimers, botTimers, conn, playerConnections,
                 others, out, last >>

NoAttempt == [player |-> "null", move |-> << >>, accepted |-> FALSE]

NewGame(gameId, state) ==
  [gameId |-> gameId, state |-> state, attempt |-> NoAttempt, plies |-> 0]

\* the moves tried on a game from the position it starts in: the tries go on
\* while they are accepted
MaxPlies == 2

Exploring ==
  /\ game.plies < MaxPlies
  /\ game.plies = 0 \/ game.attempt.accepted

\* Array(...).fill(value): the board as a table, every cell written out
EmptyBoard(cells, value) ==
  [cell \in cells |-> value] @@ [cell \in {} |-> value]

Interleave(a, b, n) ==
  [k \in 1..n |-> IF k % 2 = 1 THEN a[(k + 1) \div 2] ELSE b[k \div 2]]

\* ---------------------------------------------------------- Gatos & Caes
BOARD_SIZE == 8

MAX_CATS == 28

MAX_DOGS == 28

CENTRAL_ZONE == [minRow |-> 3, maxRow |-> 4, minCol |-> 3, maxCol |-> 4]

GatosCaesCells == (0..(BOARD_SIZE - 1)) \X (0..(BOARD_SIZE - 1))

GatosCaesEngine_createInitialState(startingPlayer) ==
  [ board |-> EmptyBoard(GatosCaesCells, "empty"),
    currentPlayer |-> startingPlayer,
    catCount |-> 0,
    dogCount |-> 0,
    lastMove |-> << >>,
    winner |-> "null",
    isFirstCatPlaced |-> FALSE,
    isFirstDogPlaced |-> FALSE ]

GatosCaesEngine_isInCentralZone(row, col) ==
  /\ row >= CENTRAL_ZONE.minRow
  /\ row <= CENTRAL_ZONE.maxRow
  /\ col >= CENTRAL_ZONE.minCol
  /\ col <= CENTRAL_ZONE.maxCol

GatosCaesEngine_hasAdjacentOpponent(board, row, col, piece) ==
  LET opponent == IF piece = "cat" THEN "dog" ELSE "cat"
      neighbors == { <<row - 1, col>>, <<row + 1, col>>,
                     <<row, col - 1>>, <<row, col + 1>> }
  IN  \E n \in neighbors :
        /\ n[1] >= 0 /\ n[1] < BOARD_SIZE /\ n[2] >= 0 /\ n[2] < BOARD_SIZE
        /\ board[n] = opponent

\* validateMove without the look at the neighbours
GatosCaesEngine_validateMoveAnyNeighbour(state, move, player) ==
  LET row == move[1]
      col == move[2]
      isCat == player = "player1"
  IN  IF state.winner # "null" THEN FALSE
      ELSE IF state.currentPlayer # player THEN FALSE
      ELSE IF row < 0 \/ row >= BOARD_SIZE \/ col < 0 \/ col >= BOARD_SIZE
      THEN FALSE
      ELSE IF state.board[<<row, col>>] # "empty" THEN FALSE
      ELSE IF isCat /\ ~state.isFirstCatPlaced
              /\ ~GatosCaesEngine_isInCentralZone(row, col)
      THEN FALSE
      ELSE IF ~isCat /\ ~state.isFirstDogPlaced
              /\ GatosCaesEngine_isInCentralZone(row, col)
      THEN FALSE
      ELSE TRUE

GatosCaesEngine_validateMove(state, move, player) ==
  LET row == move[1]
      col == move[2]
      isCat == player = "player1"
      piece == IF isCat THEN "cat" ELSE "dog"
  IN  IF state.winner # "null" THEN FALSE
      ELSE IF state.currentPlayer # player THEN FALSE
      ELSE IF row < 0 \/ row >= BOARD_SIZE \/ col < 0 \/ col >= BOARD_SIZE
      THEN FALSE
      ELSE IF state.board[<<row, col>>] # "empty" THEN FALSE
      ELSE IF isCat /\ ~state.isFirstCatPlaced
              /\ ~GatosCaesEngine_isInCentralZone(row, col)
      THEN FALSE
      ELSE IF ~isCat /\ ~state.isFirstDogPlaced
              /\ GatosCaesEngine_isInCentralZone(row, col)
      THEN FALSE
      ELSE IF GatosCaesEngine_hasAdjacentOpponent(state.board, row, col, piece)
      THEN FALSE
      ELSE TRUE

GatosCaesEngine_hasValidMoves(state, player) ==
  LET isCat == player = "player1"
      piece == IF isCat THEN "cat" ELSE "dog"
  IN  IF isCat /\ state.catCount >= MAX_CATS THEN FALSE
      ELSE IF ~isCat /\ state.dogCount >= MAX_DOGS THEN FALSE
      ELSE \E cell \in GatosCaesCells :
             /\ state.board[cell] = "empty"
             /\ ~(isCat /\ ~state.isFirstCatPlaced
                  /\ ~GatosCaesEngine_isInCentralZone(cell[1], cell[2]))
             /\ ~(~isCat /\ ~state.isFirstDogPlaced
                  /\ GatosCaesEngine_isInCentralZone(cell[1], cell[2]))
             /\ ~GatosCaesEngine_hasAdjacentOpponent(state.board,
                                                     cell[1], cell[2], piece)

\* applyMove that names the blocked player the winner
GatosCaesEngine_applyMoveBlockedWins(state, move, player) ==
  LET isCat == player = "player1"
      nextPlayer == IF player = "player1" THEN "player2" ELSE "player1"
      placed == [state EXCEPT
                   !.board[move] = IF isCat THEN "cat" ELSE "dog",
                   !.catCount = IF isCat THEN @ + 1 ELSE @,
                   !.isFirstCatPlaced = IF isCat THEN TRUE ELSE @,
                   !.dogCount = IF isCat THEN @ ELSE @ + 1,
                   !.isFirstDogPlaced = IF isCat THEN @ ELSE TRUE,
                   !.lastMove = move,
                   !.currentPlayer = nextPlayer]
  IN  IF ~GatosCaesEngine_hasValidMoves(placed, nextPlayer)
      THEN [placed EXCEPT !.winner = nextPlayer]
      ELSE placed

GatosCaesEngine_applyMove(state, move, player) ==
  LET isCat == player = "player1"
      nextPlayer == IF player = "player1" THEN "player2" ELSE "player1"
      placed == [state EXCEPT
                   !.board[move] = IF isCat THEN "cat" ELSE "dog",
                   !.catCount = IF isCat THEN @ + 1 ELSE @,
                   !.isFirstCatPlaced = IF isCat THEN TRUE ELSE @,
                   !.dogCount = IF isCat THEN @ ELSE @ + 1,
                   !.isFirstDogPlaced = IF isCat THEN @ ELSE TRUE,
                   !.lastMove = move,
                   !.currentPlayer = nextPlayer]
  IN  IF ~GatosCaesEngine_hasValidMoves(placed, nextPlayer)
      THEN [placed EXCEPT !.winner = player]
      ELSE placed

\* the game played along a list of cells, each by the player to move
RECURSIVE GatosCaesPlay(_, _)
GatosCaesPlay(state, cells) ==
  IF state.winner # "null" \/ Len(cells) = 0 THEN state
  ELSE IF Len(cells) = 1
  THEN LET player == state.currentPlayer
       IN  IF GatosCaesEngine_validateMove(state, cells[1], player)
           THEN GatosCaesEngine_applyMove(state, cells[1], player)
           ELSE state
  ELSE LET half == Len(cells) \div 2
       IN  GatosCaesPlay(GatosCaesPlay(state, SubSeq(cells, 1, half)),
                         SubSeq(cells, half + 1, Len(cells)))

\* Two games played from the first move on.  In stripes: the cats take
\* columns 0 and 4, the dogs columns 2, 6 and 7.  In halves: the cats take
\* the rows above and the left of row 3, the dogs the rows below and the right
\* of row 4.
StripesCats ==
  << <<3, 4>> >> \o [i \in 1..8 |-> <<i - 1, 0>>]
     \o [i \in 1..7 |-> <<IF i <= 3 THEN i - 1 ELSE i, 4>>]

StripesDogs ==
  [i \in 1..8 |-> <<i - 1, 2>>] \o [i \in 1..8 |-> <<i - 1, 6>>]
     \o [i \in 1..8 |-> <<i - 1, 7>>]

HalvesCats ==
  << <<3, 3>> >> \o [i \in 1..24 |-> <<(i - 1) \div 8, (i - 1) % 8>>]
     \o [i \in 1..3 |-> <<3, i - 1>>]

HalvesDogs ==
  [i \in 1..24 |-> <<5 + (i - 1) \div 8, (i - 1) % 8>>]
     \o [i \in 1..4 |-> <<4, 3 + i>>]

GatosCaesStarts ==
  { GatosCaesEngine_createInitialState(p) : p \in Roles }
  \cup { GatosCaesPlay(GatosCaesEngine_createInitialState("player1"),
                       Interleave(StripesCats, StripesDogs, n)) : n \in 30..32 }
  \cup { GatosCaesPlay(GatosCaesEngine_createInitialState("player1"),
                       Interleave(HalvesCats, HalvesDogs, n)) : n \in 54..56 }

\* the cells a client may name: the board and a ring around it
GatosCaesMoves == (-1..BOARD_SIZE) \X (-1..BOARD_SIZE)

InitGatosCaes ==
  /\ NoTournament
  /\ \E state \in GatosCaesStarts : game = NewGame("gatos-caes", state)

GatosCaesSubmit(player, move) ==
  /\ game.gameId = "gatos-caes"
  /\ Exploring
  /\ LET accepted == GatosCaesEngine_validateMove(game.state, move, player)
     IN  game' = [game EXCEPT
                    !.state = IF accepted
                              THEN GatosCaesEngine_applyMove(@, move, player)
                              ELSE @,
                    !.attempt = [player |-> player, move |-> move,
                                 accepted |-> accepted],
                    !.plies = @ + 1]
  /\ UNCHANGED serverVars

NextGatosCaes ==
  \E player \in Roles : \E move \in GatosCaesMoves : GatosCaesSubmit(player, move)

SpecGatosCaes == InitGatosCaes /\ [][NextGatosCaes]_vars

\* the pieces of a species on a board
Pieces(board, piece) == { cell \in DOMAIN board : board[cell] = piece }

Species(player) == IF player = "player1" THEN "cat" ELSE "dog"

\* the rule of a placement, read off the board alone
GatosCaesRule(board, player, cell) ==
  /\ cell \in GatosCaesCells
  /\ board[cell] = "empty"
  /\ (player = "player1" /\ Pieces(board, "cat") = {}) =>
       (cell[1] \in 3..4 /\ cell[2] \in 3..4)
  /\ (player = "player2" /\ Pieces(board, "dog") = {}) =>
       ~(cell[1] \in 3..4 /\ cell[2] \in 3..4)
  /\ \A n \in GatosCaesCells :
       ((n[1] = cell[1] /\ n[2] \in {cell[2] - 1, cell[2] + 1})
          \/ (n[2] = cell[2] /\ n[1] \in {cell[1] - 1, cell[1] + 1}))
       => board[n] # Species(OtherRole(player))

C24_OnPlacement ==
  (game.gameId = "gatos-caes" /\ game'.plies = game.plies + 1) =>
    LET a == game'.attempt
        legal == /\ game.state.winner = "null"
                 /\ game.state.currentPlayer = a.player
                 /\ GatosCaesRule(game.state.board, a.player, a.move)
    IN  /\ a.accepted <=> legal
        /\ a.accepted =>
             game'.state.board =
               [game.state.board EXCEPT ![a.move] = Species(a.player)]
        /\ ~a.accepted => game'.state = game.state

\* C24: in Gatos & Caes a placement is accepted exactly when the game is
\* not over, it is the mover's turn, the cell is in bounds and empty, the
\* mover's first cat lies inside the central zone (rows 3-4, columns 3-4) or
\* the mover's first dog lies outside it, and no orthogonal neighbour holds
\* the opposite species.  An accepted placement puts the mover's piece on the
\* cell; a rejected one leaves the game as it is.
C24_PlacementAcceptedExactlyWhenLegal == [][C24_OnPlacement]_vars

\* a dog was accepted on a board that already held a dog and a cat
C24_Witness ==
  /\ game.gameId = "gatos-caes"
  /\ game.attempt.accepted
  /\ game.attempt.player = "player2"
  /\ Cardinality(Pieces(game.state.board, "dog")) >= 2
  /\ Cardinality(Pieces(game.state.board, "cat")) >= 1

\* the player to move has no legal placement: no cell of the board passes the
\* rule, or 28 of the player's pieces are on the board
GatosCaesStuck(state) ==
  \/ \A cell \in GatosCaesCells :
       ~GatosCaesRule(state.board, state.currentPlayer, cell)
  \/ Cardinality(Pieces(state.board, Species(state.currentPlayer))) >= 28

\* C25: a Gatos & Caes game is over exactly when the player to move has no
\* legal placement, which includes having already placed 28 pieces, and the
\* winner is then the player who made the last move.
C25_OverExactlyWhenStuck ==
  game.gameId = "gatos-caes" =>
    /\ game.state.winner # "null" <=> GatosCaesStuck(game.state)
    /\ game.state.winner # "null" =>
         /\ game.state.winner = OtherRole(game.state.currentPlayer)
         /\ game.state.lastMove # << >>
         /\ game.state.board[game.state.lastMove] = Species(game.state.winner)

\* a game that ended in this step: the last placement left the other player
\* without a cell although fewer than 28 of its pieces are on the board
C25_Witness ==
  /\ game.gameId = "gatos-caes"
  /\ game.attempt.accepted
  /\ game.state.winner = game.attempt.player
  /\ Cardinality(Pieces(game.state.board, Species(game.state.currentPlayer))) < 28

\* a game that ended with 28 pieces of the player to move on the board
C25_WitnessCap ==
  /\ game.gameId = "gatos-caes"
  /\ game.attempt.accepted
  /\ game.state.winner = game.attempt.player
  /\ Cardinality(Pieces(game.state.board, Species(game.state.currentPlayer))) = 28

\* -------------------------------------------------------------- Dominorio
\* The engine of the 8x8 board, on which player1 places vertically and
\* player2 horizontally.  A move is <<row1, col1, row2, col2>>.
DominorioEngine_BOARD_SIZE == 8

DominorioCells ==
  (0..(DominorioEngine_BOARD_SIZE - 1)) \X (0..(DominorioEngine_BOARD_SIZE - 1))

Abs(x) == IF x < 0 THEN -x ELSE x

DominorioEngine_createInitialState(startingPlayer) ==
  [ board |-> EmptyBoard(DominorioCells, "null"),
    currentPlayer |-> startingPlayer,
    lastMove |-> << >>,
    winner |-> "null",
    movesCount |-> 0 ]

\* validateMove that lets either player place either way
DominorioEngine_validateMoveAnyWay(state, move, player) ==
  LET row1 == move[1]
      col1 == move[2]
      row2 == move[3]
      col2 == move[4]
      size == DominorioEngine_BOARD_SIZE
  IN  IF state.winner # "null" THEN FALSE
      ELSE IF state.currentPlayer # player THEN FALSE
      ELSE IF \/ row1 < 0 \/ row1 >= size \/ col1 < 0 \/ col1 >= size
              \/ row2 < 0 \/ row2 >= size \/ col2 < 0 \/ col2 >= size
      THEN FALSE
      ELSE IF state.board[<<row1, col1>>] # "null"
              \/ state.board[<<row2, col2>>] # "null"
      THEN FALSE
      ELSE \/ (col1 = col2 /\ Abs(row1 - row2) = 1)
           \/ (row1 = row2 /\ Abs(col1 - col2) = 1)

DominorioEngine_validateMove(state, move, player) ==
  LET row1 == move[1]
      col1 == move[2]
      row2 == move[3]
      col2 == move[4]
      size == DominorioEngine_BOARD_SIZE
  IN  IF state.winner # "null" THEN FALSE
      ELSE IF state.currentPlayer # player THEN FALSE
      ELSE IF \/ row1 < 0 \/ row1 >= size \/ col1 < 0 \/ col1 >= size
              \/ row2 < 0 \/ row2 >= size \/ col2 < 0 \/ col2 >= size
      THEN FALSE
      ELSE IF state.board[<<row1, col1>>] # "null"
              \/ state.board[<<row2, col2>>] # "null"
      THEN FALSE
      ELSE IF player = "player1"
      THEN IF col1 # col2 THEN FALSE
           ELSE IF Abs(row1 - row2) # 1 THEN FALSE
           ELSE TRUE
      ELSE IF row1 # row2 THEN FALSE
           ELSE IF Abs(col1 - col2) # 1 THEN FALSE
           ELSE TRUE

\* getValidMoves, as the set of the moves it lists
DominorioEngine_getValidMoves(state, player) ==
  IF player = "player1"
  THEN { <<cell[1], cell[2], cell[1] + 1, cell[2]>> :
           cell \in { c \in DominorioCells :
                        /\ c[1] < DominorioEngine_BOARD_SIZE - 1
                        /\ state.board[c] = "null"
                        /\ state.board[<<c[1] + 1, c[2]>>] = "null" } }
  ELSE { <<cell[1], cell[2], cell[1], cell[2] + 1>> :
           cell \in { c \in DominorioCells :
                        /\ c[2] < DominorioEngine_BOARD_SIZE - 1
                        /\ state.board[c] = "null"
                        /\ state.board[<<c[1], c[2] + 1>>] = "null" } }

DominorioEngine_hasValidMoves(state, player) ==
  DominorioEngine_getValidMoves(state, player) # {}

\* applyMove that ends the game only when neither player can place
DominorioEngine_applyMoveUntilFull(state, move, player) ==
  LET nextPlayer == IF player = "player1" THEN "player2" ELSE "player1"
      placed == [state EXCEPT
                   !.board[<<move[1], move[2]>>] = player,
                   !.board[<<move[3], move[4]>>] = player,
                   !.lastMove = move,
                   !.movesCount = @ + 1,
                   !.currentPlayer = nextPlayer]
  IN  IF ~DominorioEngine_hasValidMoves(placed, nextPlayer)
         /\ ~DominorioEngine_hasValidMoves(placed, player)
      THEN [placed EXCEPT !.winner = player]
      ELSE placed

DominorioEngine_applyMove(state, move, player) ==
  LET nextPlayer == IF player = "player1" THEN "player2" ELSE "player1"
      placed == [state EXCEPT
                   !.board[<<move[1], move[2]>>] = player,
                   !.board[<<move[3], move[4]>>] = player,
                   !.lastMove = move,
                   !.movesCount = @ + 1,
                   !.currentPlayer = nextPlayer]
  IN  IF ~DominorioEngine_hasValidMoves(placed, nextPlayer)
      THEN [placed EXCEPT !.winner = player]
      ELSE placed

\* the first move getValidMoves lists: the lowest row, then the lowest column
FirstMove(moves) ==
  CHOOSE m \in moves :
    \A o \in moves : m[1] < o[1] \/ (m[1] = o[1] /\ m[2] <= o[2])

\* the game played on for n moves, each the first valid move of its player
RECURSIVE DominorioPlay(_, _)
DominorioPlay(state, n) ==
  IF state.winner # "null" \/ n = 0 THEN state
  ELSE IF n = 1
  THEN LET player == state.currentPlayer
       IN  DominorioEngine_applyMove(
             state, FirstMove(DominorioEngine_getValidMoves(state, player)),
             player)
  ELSE DominorioPlay(DominorioPlay(state, n \div 2), n - (n \div 2))

\* the games a Dominorio position is taken from: the board empty, and a game
\* played by first valid moves up to its last moves
DominorioStarts ==
  { DominorioEngine_createInitialState("player1") }
  \cup { DominorioPlay(DominorioEngine_createInitialState(p), n) :
           p \in Roles, n \in 27..29 }

\* the dominoes a client may name: a first cell on the board or just off
\* it, and a second cell beside it, on it, across a corner or one cell
\* further
DominorioMoves ==
  { <<c[1], c[2], c[1] + d[1], c[2] + d[2]>> :
      c \in DominorioCells \cup { <<-1, 0>>, <<0, -1>>, <<8, 7>>, <<7, 8>> },
      d \in { <<0, 1>>, <<1, 0>>, <<0, -1>>, <<-1, 0>>,
              <<0, 0>>, <<1, 1>>, <<0, 2>>, <<2, 0>> } }

InitDominorio ==
  /\ NoTournament
  /\ \E state \in DominorioStarts : game = NewGame("dominorio", state)

DominorioSubmit(player, move) ==
  /\ game.gameId = "dominorio"
  /\ Exploring
  /\ LET accepted == DominorioEngine_validateMove(game.state, move, player)
     IN  game' = [game EXCEPT
                    !.state = IF accepted
                              THEN DominorioEngine_applyMove(@, move, player)
                              ELSE @,
                    !.attempt = [player |-> player, move |-> move,
                                 accepted |-> accepted],
                    !.plies = @ + 1]
  /\ UNCHANGED serverVars

NextDominorio ==
  \E player \in Roles : \E move \in DominorioMoves : DominorioSubmit(player, move)

SpecDominorio == InitDominorio /\ [][NextDominorio]_vars

\* the rule of a domino, read off the board alone: two empty cells of the
\* board, one above the other for player1, side by side for player2
DominorioRule(board, player, cell1, cell2) ==
  /\ cell1 \in DominorioCells /\ cell2 \in DominorioCells
  /\ board[cell1] = "null" /\ board[cell2] = "null"
  /\ IF player = "player1"
     THEN cell1[2] = cell2[2] /\ cell1[1] - cell2[1] \in {-1, 1}
     ELSE cell1[1] = cell2[1] /\ cell1[2] - cell2[2] \in {-1, 1}

DominorioStuck(state) ==
  \A cell1 \in DominorioCells :
    \A cell2 \in { <<cell1[1] + 1, cell1[2]>>, <<cell1[1], cell1[2] + 1>> } :
      ~DominorioRule(state.board, state.currentPlayer, cell1, cell2)

C26_OnPlacement ==
  (game.gameId = "dominorio" /\ game'.plies = game.plies + 1) =>
    LET a == game'.attempt
        cell1 == <<a.move[1], a.move[2]>>
        cell2 == <<a.move[3], a.move[4]>>
        legal == /\ game.state.winner = "null"
                 /\ game.state.currentPlayer = a.player
                 /\ DominorioRule(game.state.board, a.player, cell1, cell2)
    IN  /\ a.accepted <=> legal
        /\ a.accepted =>
             game'.state.board =
               [game.state.board EXCEPT ![cell1] = a.player, ![cell2] = a.player]
        /\ ~a.accepted => game'.state = game.state

C26_OverWhenStuck ==
  game.gameId = "dominorio" =>
    /\ game.state.winner # "null" <=> DominorioStuck(game.state)
    /\ game.state.winner # "null" =>
         /\ game.state.winner = OtherRole(game.state.currentPlayer)
         /\ game.state.lastMove # << >>
         /\ game.state.board[<<game.state.lastMove[1], game.state.lastMove[2]>>]
              = game.state.winner

\* C26: in Dominorio player1 can only place a domino on two empty cells
\* adjacent in one column and player2 only on two empty cells adjacent in one
\* row; the game is over exactly when the player to move has no such
\* placement, and the winner is the player who made the last move.
C26_OrientationAndLastMoverWins ==
  []C26_OverWhenStuck /\ [][C26_OnPlacement]_vars

\* a placement that ended the game while cells of the board are still empty
C26_Witness ==
  /\ game.gameId = "dominorio"
  /\ game.plies >= 1
  /\ game.attempt.accepted
  /\ game.state.winner = game.attempt.player
  /\ \E cell \in DominorioCells : game.state.board[cell] = "null"

\* ---------------------------------------------------------------- Quelhas
\* A move is [cells, swap]: cells is the list of the cells of the segment, in
\* the order the client gave them.
QuelhasEngine_BOARD_SIZE == 10

MIN_SEGMENT_LENGTH == 2

QuelhasCells ==
  (0..(QuelhasEngine_BOARD_SIZE - 1)) \X (0..(QuelhasEngine_BOARD_SIZE - 1))

QuelhasEngine_createInitialState(startingPlayer) ==
  [ board |-> EmptyBoard(QuelhasCells, "empty"),
    currentPlayer |-> startingPlayer,
    lastMove |-> << >>,
    winner |-> "null",
    moveCount |-> 0,
    canSwap |-> FALSE,
    swapped |-> FALSE ]

\* [...cells].sort by row, then by column
CellBefore(a, b) == a[1] < b[1] \/ (a[1] = b[1] /\ a[2] <= b[2])

RECURSIVE InsertCell(_, _)
InsertCell(cell, sorted) ==
  IF sorted = << >> THEN << cell >>
  ELSE IF CellBefore(cell, Head(sorted)) THEN << cell >> \o sorted
  ELSE << Head(sorted) >> \o InsertCell(cell, Tail(sorted))

RECURSIVE SortCells(_)
SortCells(cells) ==
  IF cells = << >> THEN << >>
  ELSE InsertCell(Head(cells), SortCells(Tail(cells)))

QuelhasEngine_areCellsContiguous(cells) ==
  IF Len(cells) < 2 THEN TRUE
  ELSE LET sorted == SortCells(cells)
           allSameRow == \A i \in 1..Len(sorted) : sorted[i][1] = sorted[1][1]
           allSameCol == \A i \in 1..Len(sorted) : sorted[i][2] = sorted[1][2]
       IN  IF ~allSameRow /\ ~allSameCol THEN FALSE
           ELSE \A i \in 2..Len(sorted) :
                  IF allSameRow
                  THEN sorted[i][2] = sorted[i - 1][2] + 1
                  ELSE sorted[i][1] = sorted[i - 1][1] + 1

QuelhasEngine_isVerticalSegment(cells) ==
  IF Len(cells) < 2 THEN FALSE
  ELSE \A i \in 1..Len(cells) : cells[i][2] = cells[1][2]

QuelhasEngine_isHorizontalSegment(cells) ==
  IF Len(cells) < 2 THEN FALSE
  ELSE \A i \in 1..Len(cells) : cells[i][1] = cells[1][1]

\* validateMove that takes a swap whenever it is player2's turn
QuelhasEngine_validateMoveSwapAnyTime(state, move, player) ==
  IF state.winner # "null" THEN FALSE
  ELSE IF state.currentPlayer # player THEN FALSE
  ELSE IF move.swap THEN player = "player2"
  ELSE
    LET cells == move.cells
        size == QuelhasEngine_BOARD_SIZE
        isVertical == QuelhasEngine_isVerticalSegment(cells)
        isHorizontal == QuelhasEngine_isHorizontalSegment(cells)
        effectivePlayer == IF state.swapped THEN OtherRole(player) ELSE player
    IN  IF Len(cells) < MIN_SEGMENT_LENGTH THEN FALSE
        ELSE IF \E i \in 1..Len(cells) :
                  \/ cells[i][1] < 0 \/ cells[i][1] >= size
                  \/ cells[i][2] < 0 \/ cells[i][2] >= size
                  \/ state.board[cells[i]] # "empty"
        THEN FALSE
        ELSE IF ~QuelhasEngine_areCellsContiguous(cells) THEN FALSE
        ELSE IF ~isVertical /\ ~isHorizontal THEN FALSE
        ELSE IF effectivePlayer = "player1" /\ ~isVertical THEN FALSE
        ELSE IF effectivePlayer = "player2" /\ ~isHorizontal THEN FALSE
        ELSE TRUE

QuelhasEngine_validateMove(state, move, player) ==
  IF state.winner # "null" THEN FALSE
  ELSE IF state.currentPlayer # player THEN FALSE
  ELSE IF move.swap
  THEN state.canSwap /\ player = "player2" /\ ~state.swapped
  ELSE
    LET cells == move.cells
        size == QuelhasEngine_BOARD_SIZE
        isVertical == QuelhasEngine_isVerticalSegment(cells)
        isHorizontal == QuelhasEngine_isHorizontalSegment(cells)
        effectivePlayer == IF state.swapped THEN OtherRole(player) ELSE player
    IN  IF Len(cells) < MIN_SEGMENT_LENGTH THEN FALSE
        ELSE IF \E i \in 1..Len(cells) :
                  \/ cells[i][1] < 0 \/ cells[i][1] >= size
                  \/ cells[i][2] < 0 \/ cells[i][2] >= size
                  \/ state.board[cells[i]] # "empty"
        THEN FALSE
        ELSE IF ~QuelhasEngine_areCellsContiguous(cells) THEN FALSE
        ELSE IF ~isVertical /\ ~isHorizontal THEN FALSE
        ELSE IF effectivePlayer = "player1" /\ ~isVertical THEN FALSE
        ELSE IF effectivePlayer = "player2" /\ ~isHorizontal THEN FALSE
        ELSE TRUE

\* the segment of len cells from cell <<row, col>> down or to the right
Segment(row, col, len, vertical) ==
  [i \in 1..len |-> IF vertical THEN <<row + i - 1, col>>
                                ELSE <<row, col + i - 1>>]

SwapMove == [cells |-> << >>, swap |-> TRUE]

\* maxLen of getValidMoves: the number of empty cells in a row from cell
\* <<row, col>> down (vertical) or to the right
RECURSIVE QuelhasMaxLen(_, _, _, _)
QuelhasMaxLen(board, row, col, vertical) ==
  IF <<row, col>> \notin QuelhasCells THEN 0
  ELSE IF board[<<row, col>>] # "empty" THEN 0
  ELSE 1 + (IF vertical THEN QuelhasMaxLen(board, row + 1, col, vertical)
                        ELSE QuelhasMaxLen(board, row, col + 1, vertical))

\* getValidMoves(state, player).length > 0: the list holds the swap when it is
\* on offer and, for every start cell, one segment for each length from
\* MIN_SEGMENT_LENGTH to maxLen
QuelhasEngine_hasValidMoves(state, player) ==
  LET effectivePlayer == IF state.swapped THEN OtherRole(player) ELSE player
      isVertical == effectivePlayer = "player1"
  IN  \/ state.canSwap /\ player = "player2" /\ ~state.swapped
      \/ \E c \in QuelhasCells :
           QuelhasMaxLen(state.board, c[1], c[2], isVertical) >= MIN_SEGMENT_LENGTH

RECURSIVE Fill(_, _)
Fill(board, cells) ==
  IF cells = << >> THEN board
  ELSE Fill([board EXCEPT ![Head(cells)] = "filled"], Tail(cells))

\* applyMove that names the player who moved last the winner
QuelhasEngine_applyMoveLastMoverWins(state, move, player) ==
  IF move.swap /\ state.canSwap
  THEN [state EXCEPT !.swapped = TRUE, !.canSwap = FALSE,
                     !.currentPlayer = "player1", !.moveCount = @ + 1]
  ELSE
    LET nextPlayer == OtherRole(player)
        placed == [state EXCEPT
                     !.board = Fill(@, move.cells),
                     !.lastMove = move,
                     !.moveCount = @ + 1,
                     !.canSwap = (state.moveCount + 1 = 1),
                     !.currentPlayer = nextPlayer]
    IN  IF ~QuelhasEngine_hasValidMoves(placed, nextPlayer)
        THEN [placed EXCEPT !.winner = player]
        ELSE placed

QuelhasEngine_applyMove(state, move, player) ==
  IF move.swap /\ state.canSwap
  THEN [state EXCEPT !.swapped = TRUE, !.canSwap = FALSE,
                     !.currentPlayer = "player1", !.moveCount = @ + 1]
  ELSE
    LET nextPlayer == OtherRole(player)
        placed == [state EXCEPT
                     !.board = Fill(@, move.cells),
                     !.lastMove = move,
                     !.moveCount = @ + 1,
                     !.canSwap = (state.moveCount + 1 = 1),
                     !.currentPlayer = nextPlayer]
    IN  IF ~QuelhasEngine_hasValidMoves(placed, nextPlayer)
        THEN [placed EXCEPT !.winner = nextPlayer]
        ELSE placed

\* the first move getValidMoves lists: the swap when it is offered, else the
\* segment of two cells that comes first in the order of its loops
QuelhasFirstMove(state, player) ==
  LET effectivePlayer == IF state.swapped THEN OtherRole(player) ELSE player
      isVertical == effectivePlayer = "player1"
      Key(c) == IF isVertical THEN << c[2], c[1] >> ELSE c
      starts == { c \in QuelhasCells :
                    QuelhasMaxLen(state.board, c[1], c[2], isVertical)
                      >= MIN_SEGMENT_LENGTH }
      first == CHOOSE c \in starts : \A o \in starts : CellBefore(Key(c), Key(o))
  IN  IF state.canSwap /\ player = "player2" /\ ~state.swapped THEN SwapMove
      ELSE [cells |-> Segment(first[1], first[2], MIN_SEGMENT_LENGTH, isVertical),
            swap |-> FALSE]

\* the game played on for n moves, each the first valid move of its player
RECURSIVE QuelhasPlay(_, _)
QuelhasPlay(state, n) ==
  IF state.winner # "null" \/ n = 0 THEN state
  ELSE IF n = 1
  THEN QuelhasEngine_applyMove(
         state, QuelhasFirstMove(state, state.currentPlayer), state.currentPlayer)
  ELSE QuelhasPlay(QuelhasPlay(state, n \div 2), n - (n \div 2))

\* the positions the tries start from: the empty board, the board after one
\* move, after the swap, and the last positions of a game played out
QuelhasStarts ==
  { QuelhasEngine_createInitialState(p) : p \in Roles }
  \cup { QuelhasPlay(QuelhasEngine_createInitialState("player1"), n) :
           n \in {1, 2} \cup (48..50) }
  \cup { QuelhasPlay(QuelhasEngine_createInitialState("player2"), n) :
           n \in {1} \cup (47..49) }

\* the cells a tried segment starts from: the rim of the board and the cells
\* just off it
QuelhasTryCells ==
  { c \in (-1..QuelhasEngine_BOARD_SIZE) \X (-1..QuelhasEngine_BOARD_SIZE) :
      \/ c[1] \in {-1, 0, QuelhasEngine_BOARD_SIZE - 1, QuelhasEngine_BOARD_SIZE}
      \/ c[2] \in {-1, 0, QuelhasEngine_BOARD_SIZE - 1, QuelhasEngine_BOARD_SIZE} }

\* the moves a client may send: the swap, segments of two cells, a few of one
\* and of three cells, and lists that are no segment or name their cells in
\* another order
QuelhasMoves ==
  { SwapMove }
  \cup { [cells |-> Segment(c[1], c[2], MIN_SEGMENT_LENGTH, v), swap |-> FALSE] :
           c \in QuelhasTryCells, v \in BOOLEAN }
  \cup { [cells |-> Segment(c[1], c[2], len, v), swap |-> FALSE] :
           c \in { <<0, 0>>, <<0, 9>>, <<9, 0>> }, len \in {1, 3}, v \in BOOLEAN }
  \cup { [cells |-> cells, swap |-> FALSE] :
           cells \in { << <<1, 0>>, <<0, 0>> >>,
                       << <<0, 1>>, <<0, 0>> >>,
                       << <<0, 0>>, <<0, 0>> >>,
                       << <<0, 0>>, <<1, 1>> >>,
                       << <<0, 0>>, <<2, 0>> >>,
                       << <<0, 0>>, <<0, 2>> >>,
                       << <<0, 0>>, <<1, 0>>, <<1, 0>> >>,
                       << <<0, 0>>, <<1, 0>>, <<1, 1>> >>,
                       << <<0, 2>>, <<0, 0>>, <<0, 1>> >> } }

InitQuelhas ==
  /\ NoTournament
  /\ \E state \in QuelhasStarts : game = NewGame("quelhas", state)

QuelhasSubmit(player, move) ==
  /\ game.gameId = "quelhas"
  /\ Exploring
  /\ LET accepted == QuelhasEngine_validateMove(game.state, move, player)
     IN  game' = [game EXCEPT
                    !.state = IF accepted
                              THEN QuelhasEngine_applyMove(@, move, player)
                              ELSE @,
                    !.attempt = [player |-> player, move |-> move,
                                 accepted |-> accepted],
                    !.plies = @ + 1]
  /\ UNCHANGED serverVars

NextQuelhas ==
  \E player \in Roles : \E move \in QuelhasMoves : QuelhasSubmit(player, move)

SpecQuelhas == InitQuelhas /\ [][NextQuelhas]_vars

\* the rule of a segment, read off the board alone: at least two cells, all
\* different, all on the board and empty, in one column (vertical) or in one
\* row, with no gap
QuelhasRule(board, vertical, cells) ==
  LET along == IF vertical THEN 1 ELSE 2
      across == IF vertical THEN 2 ELSE 1
      places == { cells[i][along] : i \in 1..Len(cells) }
  IN  /\ Len(cells) >= 2
      /\ \A i \in 1..Len(cells) :
           /\ cells[i] \in QuelhasCells
           /\ board[cells[i]] = "empty"
           /\ cells[i][across] = cells[1][across]
      /\ Cardinality(places) = Len(cells)
      /\ \E from \in 0..(QuelhasEngine_BOARD_SIZE - 1) :
           places = from..(from + Len(cells) - 1)

\* the orientation of a player's segments: player1 vertical and player2
\* horizontal, the other way round once the swap was made
PlaysVertical(state, player) == (player = "player1") # state.swapped

\* C27 (one try of a move): a swap is accepted exactly when the game is not
\* over, it is player2's turn and player2 sends it, exactly one move was made
\* and no swap was made before; an accepted swap leaves the board as it was,
\* gives the turn to player1 and stays made for the rest of the game; a
\* segment is accepted exactly when it is the mover's turn and the segment
\* follows the rule in the mover's orientation, which after the swap is
\* horizontal for player1 and vertical for player2.
C27_OnTry ==
  (game.gameId = "quelhas" /\ game'.plies = game.plies + 1) =>
    LET a == game'.attempt
        before == game.state
        after == game'.state
    IN  /\ a.move.swap =>
             /\ a.accepted <=> /\ before.winner = "null"
                               /\ before.currentPlayer = "player2"
                               /\ a.player = "player2"
                               /\ before.moveCount = 1
                               /\ ~before.swapped
             /\ a.accepted =>
                  /\ after.board = before.board
                  /\ after.currentPlayer = "player1"
                  /\ after.winner = "null"
                  /\ after.swapped
        /\ ~a.move.swap =>
             /\ a.accepted <=> /\ before.winner = "null"
                               /\ before.currentPlayer = a.player
                               /\ QuelhasRule(before.board,
                                              PlaysVertical(before, a.player),
                                              a.move.cells)
             /\ (a.accepted /\ before.swapped) =>
                  IF a.player = "player1"
                  THEN QuelhasEngine_isHorizontalSegment(a.move.cells)
                  ELSE QuelhasEngine_isVerticalSegment(a.move.cells)
        /\ before.swapped => after.swapped
        /\ ~a.accepted => after = before

C27_SwapOnlyOnceBySecondPlayer == [][C27_OnTry]_vars

\* player2 swapped as the second move and player1 then placed a horizontal
\* segment
C27_Witness ==
  /\ game.gameId = "quelhas"
  /\ game.plies = 2
  /\ game.state.moveCount = 3
  /\ game.state.swapped
  /\ game.attempt.accepted
  /\ game.attempt.player = "player1"
  /\ QuelhasEngine_isHorizontalSegment(game.attempt.move.cells)

\* the player has no legal move: no swap to make and no two empty cells next
\* to each other in the player's orientation
QuelhasStuck(state, player) ==
  /\ ~(state.currentPlayer = "player2" /\ player = "player2"
       /\ state.moveCount = 1 /\ ~state.swapped)
  /\ \A c \in QuelhasCells :
       LET next == IF PlaysVertical(state, player)
                   THEN <<c[1] + 1, c[2]>> ELSE <<c[1], c[2] + 1>>
       IN  ~(/\ next \in QuelhasCells
             /\ state.board[c] = "empty"
             /\ state.board[next] = "empty")

\* C28: a game of Quelhas has a winner exactly when the player to move has no
\* legal move; the winner is that player, and the player who made the last
\* move is the other one, who loses.
C28_OverExactlyWhenStuckAndLastMoverLoses ==
  game.gameId = "quelhas" =>
    /\ game.state.winner # "null"
         <=> QuelhasStuck(game.state, game.state.currentPlayer)
    /\ game.state.winner # "null" =>
         /\ game.state.winner = game.state.currentPlayer
         /\ (game.plies >= 1 /\ game.attempt.accepted) =>
              game.state.winner = OtherRole(game.attempt.player)

\* a segment was placed that left the other player without a move while empty
\* cells remain: the other player is the winner
C28_Witness ==
  /\ game.gameId = "quelhas"
  /\ game.plies >= 1
  /\ game.attempt.accepted
  /\ game.state.winner = OtherRole(game.attempt.player)
  /\ \E c \in QuelhasCells : game.state.board[c] = "empty"

\* ---------------------------------------------------------------- Produto
\* A move is the list of its placements, each [coord, color]; a coord is
\* <<q, r>>.
HEX_RADIUS == 4

TOTAL_CELLS == 61

\* generateHexCoords, in the order of its loops
ALL_HEX_COORDS ==
  LET side == 2 * HEX_RADIUS + 1
      square == [i \in 1..(side * side) |->
                   << ((i - 1) \div side) - HEX_RADIUS,
                      ((i - 1) % side) - HEX_RADIUS >>]
      OnBoard(coord) == Abs(coord[1] + coord[2]) <= HEX_RADIUS
  IN  SelectSeq(square, OnBoard)

ProdutoCells == { ALL_HEX_COORDS[i] : i \in 1..Len(ALL_HEX_COORDS) }

ProdutoEngine_createInitialState(startingPlayer) ==
  [ board |-> EmptyBoard(ProdutoCells, "empty"),
    currentPlayer |-> startingPlayer,
    lastMove |-> << >>,
    winner |-> "null",
    moveCount |-> 0,
    blackPiecesPlaced |-> 0,
    whitePiecesPlaced |-> 0 ]

\* validateMove without the count of the placements
ProdutoEngine_validateMoveAnyCount(state, move, player) ==
  IF state.winner # "null" THEN FALSE
  ELSE IF state.currentPlayer # player THEN FALSE
  ELSE \A i \in 1..Len(move) :
         /\ move[i].coord \in DOMAIN state.board
         /\ state.board[move[i].coord] = "empty"
         /\ \A j \in 1..(i - 1) : move[j].coord # move[i].coord
         /\ move[i].color \in {"black", "white"}

ProdutoEngine_validateMove(state, move, player) ==
  IF state.winner # "null" THEN FALSE
  ELSE IF state.currentPlayer # player THEN FALSE
  ELSE LET expectedCount == IF state.moveCount = 0 THEN 1 ELSE 2
       IN  IF Len(move) # expectedCount THEN FALSE
           ELSE \A i \in 1..Len(move) :
                  /\ move[i].coord \in DOMAIN state.board
                  /\ state.board[move[i].coord] = "empty"
                  /\ \A j \in 1..(i - 1) : move[j].coord # move[i].coord
                  /\ move[i].color \in {"black", "white"}

ProdutoEngine_countEmptyCells(state) ==
  Cardinality({ coord \in DOMAIN state.board : state.board[coord] = "empty" })

ProdutoEngine_getHexNeighbors(coord) ==
  { << coord[1] + d[1], coord[2] + d[2] >> :
      d \in { <<1, 0>>, <<1, -1>>, <<0, -1>>, <<-1, 0>>, <<-1, 1>>, <<0, 1>> } }

\* the search of findGroups from the cells in group: the cells of the colour
\* joined to them
RECURSIVE ProdutoGroup(_, _, _)
ProdutoGroup(board, color, group) ==
  LET more == { n \in UNION { ProdutoEngine_getHexNeighbors(c) : c \in group } :
                  n \in DOMAIN board /\ board[n] = color }
  IN  IF more \subseteq group THEN group
      ELSE ProdutoGroup(board, color, group \cup more)

\* findGroups, as the set of the groups
ProdutoEngine_findGroups(state, color) ==
  { ProdutoGroup(state.board, color, {coord}) :
      coord \in { c \in DOMAIN state.board : state.board[c] = color } }

ProdutoEngine_calculateScore(state, color) ==
  LET groups == ProdutoEngine_findGroups(state, color)
  IN  IF Cardinality(groups) < 2 THEN 0
      ELSE LET first == CHOOSE g \in groups :
                          \A o \in groups : Cardinality(g) >= Cardinality(o)
               second == CHOOSE g \in groups \ {first} :
                           \A o \in groups \ {first} :
                             Cardinality(g) >= Cardinality(o)
           IN  Cardinality(first) * Cardinality(second)

RECURSIVE ProdutoPlace(_, _)
ProdutoPlace(state, placements) ==
  IF placements = << >> THEN state
  ELSE LET p == Head(placements)
       IN  ProdutoPlace(
             [state EXCEPT
                !.board[p.coord] = p.color,
                !.blackPiecesPlaced = IF p.color = "black" THEN @ + 1 ELSE @,
                !.whitePiecesPlaced = IF p.color = "black" THEN @ ELSE @ + 1],
             Tail(placements))

\* the winner applyMove names when it scores the board
ProdutoScored(state) ==
  LET blackScore == ProdutoEngine_calculateScore(state, "black")
      whiteScore == ProdutoEngine_calculateScore(state, "white")
  IN  IF blackScore > whiteScore THEN "player1"
      ELSE IF whiteScore > blackScore THEN "player2"
      ELSE IF state.blackPiecesPlaced < state.whitePiecesPlaced THEN "player1"
      ELSE IF state.whitePiecesPlaced < state.blackPiecesPlaced THEN "player2"
      ELSE "draw"

ProdutoEngine_applyMove(state, move, player) ==
  LET placed == [ProdutoPlace(state, move) EXCEPT
                   !.lastMove = move, !.moveCount = @ + 1]
      emptyCells == ProdutoEngine_countEmptyCells(placed)
      over == IF emptyCells = 0 THEN [placed EXCEPT !.winner = ProdutoScored(placed)]
              ELSE IF emptyCells = 1 /\ placed.moveCount > 0
              THEN [placed EXCEPT !.winner = ProdutoScored(placed)]
              ELSE placed
  IN  IF over.winner = "null"
      THEN [over EXCEPT !.currentPlayer = OtherRole(player)]
      ELSE over

\* the move a scripted game makes at a position: the next cells of
\* ALL_HEX_COORDS, one on the first move and two after it, black on the
\* even columns and white on the odd ones
ProdutoScriptMove(state) ==
  LET Piece(i) == [coord |-> ALL_HEX_COORDS[i],
                   color |-> IF (ALL_HEX_COORDS[i][1] + HEX_RADIUS) % 2 = 0
                             THEN "black" ELSE "white"]
      k == state.moveCount
  IN  IF k = 0 THEN << Piece(1) >> ELSE << Piece(2 * k), Piece(2 * k + 1) >>

RECURSIVE ProdutoPlay(_, _)
ProdutoPlay(state, n) ==
  IF state.winner # "null" \/ n = 0 THEN state
  ELSE IF n = 1
  THEN ProdutoEngine_applyMove(state, ProdutoScriptMove(state), state.currentPlayer)
  ELSE ProdutoPlay(ProdutoPlay(state, n \div 2), n - (n \div 2))

ProdutoStarts ==
  { ProdutoEngine_createInitialState(p) : p \in Roles }
  \cup { ProdutoPlay(ProdutoEngine_createInitialState("player1"), n) :
           n \in {1} \cup (29..31) }
  \cup { ProdutoPlay(ProdutoEngine_createInitialState("player2"), 30) }

\* the cells a client names in the tries: the first and the last cells of the
\* board, its centre, and two cells off it
ProdutoTryCells ==
  { <<-4, 0>>, <<0, 0>>, <<4, -3>>, <<4, -2>>, <<4, -1>>, <<4, 0>>,
    <<5, 0>>, <<3, 3>> }

ProdutoTryPieces ==
  { [coord |-> c, color |-> k] : c \in ProdutoTryCells, k \in {"black", "white"} }
  \cup { [coord |-> <<4, 0>>, color |-> "empty"] }

\* the moves a client may send: no placement, one, two, or three
ProdutoMoves ==
  { << >> }
  \cup { << p >> : p \in ProdutoTryPieces }
  \cup { << p, q >> : p \in ProdutoTryPieces, q \in ProdutoTryPieces }
  \cup { << p, q, [coord |-> <<0, 0>>, color |-> "black"] >> :
           p \in { x \in ProdutoTryPieces : x.coord = <<4, -1>> },
           q \in { x \in ProdutoTryPieces : x.coord = <<4, 0>> } }

InitProduto ==
  /\ NoTournament
  /\ \E state \in ProdutoStarts : game = NewGame("produto", state)

ProdutoSubmit(player, move) ==
  /\ game.gameId = "produto"
  /\ Exploring
  /\ LET accepted == ProdutoEngine_validateMove(game.state, move, player)
     IN  game' = [game EXCEPT
                    !.state = IF accepted
                              THEN ProdutoEngine_applyMove(@, move, player)
                              ELSE @,
                    !.attempt = [player |-> player, move |-> move,
                                 accepted |-> accepted],
                    !.plies = @ + 1]
  /\ UNCHANGED serverVars

NextProduto ==
  \E player \in Roles : \E move \in ProdutoMoves : ProdutoSubmit(player, move)

SpecProduto == InitProduto /\ [][NextProduto]_vars

\* C29 (one try of a move): a move is accepted exactly when the game is not
\* over, it is the mover's turn, it has one placement if no move was made yet
\* and two otherwise, every placement names an empty cell of the board and a
\* colour, black or white whoever moves, and no two name the same cell; an
\* accepted move puts those pieces on those cells and changes no other cell.
C29_OnTry ==
  (game.gameId = "produto" /\ game'.plies = game.plies + 1) =>
    LET a == game'.attempt
        before == game.state
        after == game'.state
        named == { a.move[i].coord : i \in 1..Len(a.move) }
        legal == /\ before.winner = "null"
                 /\ before.currentPlayer = a.player
                 /\ Len(a.move) = IF before.moveCount = 0 THEN 1 ELSE 2
                 /\ Cardinality(named) = Len(a.move)
                 /\ \A i \in 1..Len(a.move) :
                      /\ a.move[i].coord \in ProdutoCells
                      /\ before.board[a.move[i].coord] = "empty"
                      /\ a.move[i].color \in {"black", "white"}
    IN  /\ a.accepted <=> legal
        /\ a.accepted =>
             /\ \A i \in 1..Len(a.move) :
                  after.board[a.move[i].coord] = a.move[i].color
             /\ \A c \in ProdutoCells \ named : after.board[c] = before.board[c]
        /\ ~a.accepted => after = before

\* C29 (every position): the board has 61 cells; after the first move an
\* even number of them is empty; the game has a result exactly when none is.
C29_OverWhenFull ==
  game.gameId = "produto" =>
    LET empty == { c \in ProdutoCells : game.state.board[c] = "empty" }
    IN  /\ DOMAIN game.state.board = ProdutoCells
        /\ Cardinality(ProdutoCells) = TOTAL_CELLS
        /\ Cardinality(empty) =
             IF game.state.moveCount = 0 THEN TOTAL_CELLS
             ELSE TOTAL_CELLS + 1 - 2 * game.state.moveCount
        /\ game.state.winner # "null" <=> empty = {}

C29_OneThenTwoUntilFull == []C29_OverWhenFull /\ [][C29_OnTry]_vars

\* the last two cells were filled by one move, both in the same colour, and
\* the game has its result
C29_Witness ==
  /\ game.gameId = "produto"
  /\ game.plies >= 1
  /\ game.attempt.accepted
  /\ Len(game.attempt.move) = 2
  /\ game.attempt.move[1].color = game.attempt.move[2].color
  /\ game.state.winner # "null"
  /\ \A c \in ProdutoCells : game.state.board[c] # "empty"

\* ---------------------------------------------------------------- Atari Go
\* A move is [row, col, pass]; player1 plays black, player2 white.
AtariGoEngine_BOARD_SIZE == 9

CAPTURE_TO_WIN == 1

AtariGoCells ==
  (0..(AtariGoEngine_BOARD_SIZE - 1)) \X (0..(AtariGoEngine_BOARD_SIZE - 1))

AtariGoEngine_createInitialState(startingPlayer) ==
  [ board |-> EmptyBoard(AtariGoCells, "empty"),
    currentPlayer |-> startingPlayer,
    blackCaptures |-> 0,
    whiteCaptures |-> 0,
    lastMove |-> << >>,
    winner |-> "null",
    passCount |-> 0 ]

\* the four neighbours the helpers look at, those off the board skipped
AtariGoNeighbors(cell) ==
  { << cell[1] - 1, cell[2] >>, << cell[1] + 1, cell[2] >>,
    << cell[1], cell[2] - 1 >>, << cell[1], cell[2] + 1 >> } \cap AtariGoCells

\* the search of getGroup: stack holds the cells still to visit, group the
\* cells visited
RECURSIVE AtariGoSearch(_, _, _, _)
AtariGoSearch(board, color, stack, group) ==
  IF stack = {} THEN group
  ELSE LET cell == CHOOSE c \in stack : TRUE
       IN  IF cell \in group \/ cell \notin AtariGoCells
           THEN AtariGoSearch(board, color, stack \ {cell}, group)
           ELSE IF board[cell] # color
           THEN AtariGoSearch(board, color, stack \ {cell}, group)
           ELSE AtariGoSearch(board, color,
                              (stack \ {cell}) \cup (AtariGoNeighbors(cell) \ group),
                              group \cup {cell})

\* getGroup, as the set of its cells
AtariGoEngine_getGroup(board, row, col) ==
  IF board[<<row, col>>] = "empty" THEN {}
  ELSE AtariGoSearch(board, board[<<row, col>>], { <<row, col>> }, {})

\* getAdjacentGroups, as the set of the groups
AtariGoEngine_getAdjacentGroups(board, row, col, color) ==
  { AtariGoEngine_getGroup(board, n[1], n[2]) :
      n \in { c \in AtariGoNeighbors(<<row, col>>) : board[c] = color } }

AtariGoEngine_countLiberties(board, group) ==
  Cardinality({ n \in UNION { AtariGoNeighbors(c) : c \in group } :
                  board[n] = "empty" })

AtariGoColor(player) == IF player = "player1" THEN "black" ELSE "white"

AtariGoOpponent(color) == IF color = "black" THEN "white" ELSE "black"

AtariGoEngine_validateMove(state, move, player) ==
  IF state.winner # "null" THEN FALSE
  ELSE IF state.currentPlayer # player THEN FALSE
  ELSE IF move.pass THEN TRUE
  ELSE IF \/ move.row < 0 \/ move.row >= AtariGoEngine_BOARD_SIZE
          \/ move.col < 0 \/ move.col >= AtariGoEngine_BOARD_SIZE
  THEN FALSE
  ELSE IF state.board[<<move.row, move.col>>] # "empty" THEN FALSE
  ELSE
    LET color == AtariGoColor(player)
        opponent == AtariGoOpponent(color)
        testBoard == [state.board EXCEPT ![<<move.row, move.col>>] = color]
        wouldCapture ==
          \E group \in AtariGoEngine_getAdjacentGroups(
                         testBoard, move.row, move.col, opponent) :
            AtariGoEngine_countLiberties(testBoard, group) = 0
        ownGroup == AtariGoEngine_getGroup(testBoard, move.row, move.col)
    IN  IF wouldCapture THEN TRUE
        ELSE AtariGoEngine_countLiberties(testBoard, ownGroup) > 0

\* the loop of applyMove over the adjacent groups: r is [board, captured]
RECURSIVE AtariGoCapture(_, _)
AtariGoCapture(r, groups) ==
  IF groups = {} THEN r
  ELSE LET group == CHOOSE g \in groups : TRUE
       IN  IF AtariGoEngine_countLiberties(r.board, group) = 0
           THEN AtariGoCapture(
                  [board |-> [c \in AtariGoCells |->
                                IF c \in group THEN "empty" ELSE r.board[c]],
                   captured |-> r.captured + Cardinality(group)],
                  groups \ {group})
           ELSE AtariGoCapture(r, groups \ {group})

\* applyMove that goes on after a capture
AtariGoEngine_applyMoveKeepsPlaying(state, move, player) ==
  IF move.pass
  THEN IF state.passCount + 1 >= 2
       THEN [state EXCEPT !.passCount = @ + 1, !.lastMove = move,
                          !.winner = "draw"]
       ELSE [state EXCEPT !.passCount = @ + 1, !.lastMove = move,
                          !.currentPlayer = OtherRole(player)]
  ELSE
    LET color == AtariGoColor(player)
        opponent == AtariGoOpponent(color)
        placed == [state.board EXCEPT ![<<move.row, move.col>>] = color]
        r == AtariGoCapture(
               [board |-> placed, captured |-> 0],
               AtariGoEngine_getAdjacentGroups(placed, move.row, move.col, opponent))
    IN  [state EXCEPT
           !.passCount = 0, !.board = r.board, !.lastMove = move,
           !.blackCaptures = IF player = "player1" THEN @ + r.captured ELSE @,
           !.whiteCaptures = IF player = "player1" THEN @ ELSE @ + r.captured,
           !.currentPlayer = OtherRole(player)]

\* applyMove that keeps the count of passes when a stone is placed
AtariGoEngine_applyMoveCountsAllPasses(state, move, player) ==
  IF move.pass
  THEN IF state.passCount + 1 >= 2
       THEN [state EXCEPT !.passCount = @ + 1, !.lastMove = move,
                          !.winner = "draw"]
       ELSE [state EXCEPT !.passCount = @ + 1, !.lastMove = move,
                          !.currentPlayer = OtherRole(player)]
  ELSE
    LET color == AtariGoColor(player)
        opponent == AtariGoOpponent(color)
        placed == [state.board EXCEPT ![<<move.row, move.col>>] = color]
        r == AtariGoCapture(
               [board |-> placed, captured |-> 0],
               AtariGoEngine_getAdjacentGroups(placed, move.row, move.col, opponent))
        counted == [state EXCEPT
                      !.board = r.board, !.lastMove = move,
                      !.blackCaptures = IF player = "player1"
                                        THEN @ + r.captured ELSE @,
                      !.whiteCaptures = IF player = "player1"
                                        THEN @ ELSE @ + r.captured]
        won == IF counted.blackCaptures >= CAPTURE_TO_WIN
               THEN [counted EXCEPT !.winner = "player1"]
               ELSE IF counted.whiteCaptures >= CAPTURE_TO_WIN
               THEN [counted EXCEPT !.winner = "player2"]
               ELSE counted
    IN  IF won.winner = "null"
        THEN [won EXCEPT !.currentPlayer = OtherRole(player)]
        ELSE won

AtariGoEngine_applyMove(state, move, player) ==
  IF move.pass
  THEN IF state.passCount + 1 >= 2
       THEN [state EXCEPT !.passCount = @ + 1, !.lastMove = move,
                          !.winner = "draw"]
       ELSE [state EXCEPT !.passCount = @ + 1, !.lastMove = move,
                          !.currentPlayer = OtherRole(player)]
  ELSE
    LET color == AtariGoColor(player)
        opponent == AtariGoOpponent(color)
        placed == [state.board EXCEPT ![<<move.row, move.col>>] = color]
        r == AtariGoCapture(
               [board |-> placed, captured |-> 0],
               AtariGoEngine_getAdjacentGroups(placed, move.row, move.col, opponent))
        counted == [state EXCEPT
                      !.passCount = 0, !.board = r.board, !.lastMove = move,
                      !.blackCaptures = IF player = "player1"
                                        THEN @ + r.captured ELSE @,
                      !.whiteCaptures = IF player = "player1"
                                        THEN @ ELSE @ + r.captured]
        won == IF counted.blackCaptures >= CAPTURE_TO_WIN
               THEN [counted EXCEPT !.winner = "player1"]
               ELSE IF counted.whiteCaptures >= CAPTURE_TO_WIN
               THEN [counted EXCEPT !.winner = "player2"]
               ELSE counted
    IN  IF won.winner = "null"
        THEN [won EXCEPT !.currentPlayer = OtherRole(player)]
        ELSE won

Stone(row, col) == [row |-> row, col |-> col, pass |-> FALSE]

Pass == [row |-> 0, col |-> 0, pass |-> TRUE]

\* the game played on by the moves of a script, each by the player to move
RECURSIVE AtariGoPlay(_, _)
AtariGoPlay(state, moves) ==
  IF state.winner # "null" \/ Len(moves) = 0 THEN state
  ELSE IF Len(moves) = 1
  THEN IF AtariGoEngine_validateMove(state, moves[1], state.currentPlayer)
       THEN AtariGoEngine_applyMove(state, moves[1], state.currentPlayer)
       ELSE state
  ELSE AtariGoPlay(AtariGoPlay(state, SubSeq(moves, 1, Len(moves) \div 2)),
                   SubSeq(moves, (Len(moves) \div 2) + 1, Len(moves)))

\* the scripts: a stone in the corner with one liberty left; two stones on
\* the edge with one liberty left; two stones with the same last liberty, in
\* a cell where the capturing stone has no liberty of its own; a corner where
\* a stone would have no liberty and capture nothing
AtariGoScripts ==
  { << Stone(0, 1), Stone(0, 0) >>,
    << Stone(1, 0), Stone(0, 0), Stone(1, 1), Stone(0, 1) >>,
    << Stone(1, 0), Stone(0, 0), Stone(1, 2), Stone(0, 2),
       Stone(0, 3), Stone(1, 1) >>,
    << Stone(0, 1), Stone(3, 3), Stone(1, 0) >>,
    << Stone(0, 1), Pass >> }

AtariGoStarts ==
  { AtariGoEngine_createInitialState("player1") }
  \cup { AtariGoPlay(AtariGoEngine_createInitialState(p), script) :
           p \in Roles, script \in AtariGoScripts }

\* the moves a client may send: a pass, and a stone on the cells of a corner
\* of the board, on a far cell, and off the board
AtariGoMoves ==
  { Pass }
  \cup { Stone(c[1], c[2]) :
           c \in ((0..3) \X (0..3))
                   \cup { <<8, 8>>, <<-1, 0>>, <<0, -1>>, <<9, 0>>, <<0, 9>> } }

InitAtariGo ==
  /\ NoTournament
  /\ \E state \in AtariGoStarts : game = NewGame("atari-go", state)

AtariGoSubmit(player, move) ==
  /\ game.gameId = "atari-go"
  /\ Exploring
  /\ LET accepted == AtariGoEngine_validateMove(game.state, move, player)
     IN  game' = [game EXCEPT
                    !.state = IF accepted
                              THEN AtariGoEngine_applyMove(@, move, player)
                              ELSE @,
                    !.attempt = [player |-> player, move |-> move,
                                 accepted |-> accepted],
                    !.plies = @ + 1]
  /\ UNCHANGED serverVars

NextAtariGo ==
  \E player \in Roles : \E move \in AtariGoMoves : AtariGoSubmit(player, move)

SpecAtariGo == InitAtariGo /\ [][NextAtariGo]_vars

\* the stones joined to the stones of chain through neighbours of their colour
RECURSIVE ChainOf(_, _)
ChainOf(board, chain) ==
  LET color == board[CHOOSE c \in chain : TRUE]
      more == { n \in AtariGoCells :
                  /\ board[n] = color
                  /\ \E c \in chain : n \in AtariGoNeighbors(c) }
  IN  IF more \subseteq chain THEN chain ELSE ChainOf(board, chain \cup more)

\* the stone on the cell belongs to a chain with no empty cell beside it
WithoutLiberty(board, cell) ==
  \A c \in ChainOf(board, {cell}) :
    \A n \in AtariGoNeighbors(c) : board[n] # "empty"

\* C30 (one try of a move): no move, pass included, is accepted once a stone
\* was captured; an accepted placement puts the mover's stone on the cell,
\* takes off the board exactly the opposing stones whose chain it left without
\* liberties and adds their number to the mover's captures; if there are any
\* the mover is the winner at once, and otherwise the game goes on with the
\* other player.
C30_OnTry ==
  (game.gameId = "atari-go" /\ game'.plies = game.plies + 1) =>
    LET a == game'.attempt
        before == game.state
        after == game'.state
        cell == << a.move.row, a.move.col >>
        color == AtariGoColor(a.player)
        placed == [before.board EXCEPT ![cell] = color]
        dead == { c \in AtariGoCells :
                    /\ placed[c] = AtariGoOpponent(color)
                    /\ WithoutLiberty(placed, c) }
        Mine(state) == IF a.player = "player1" THEN state.blackCaptures
                       ELSE state.whiteCaptures
        Theirs(state) == IF a.player = "player1" THEN state.whiteCaptures
                         ELSE state.blackCaptures
    IN  /\ (before.blackCaptures + before.whiteCaptures > 0) => ~a.accepted
        /\ ~a.accepted => after = before
        /\ (a.accepted /\ ~a.move.pass) =>
             /\ before.board[cell] = "empty"
             /\ after.board = [c \in AtariGoCells |->
                                 IF c \in dead THEN "empty" ELSE placed[c]]
             /\ \A c \in dead :
                  \E n \in AtariGoNeighbors(cell) : n \in ChainOf(placed, {c})
             /\ Mine(after) = Mine(before) + Cardinality(dead)
             /\ Theirs(after) = Theirs(before)
             /\ IF dead # {}
                THEN after.winner = a.player
                ELSE /\ after.winner = "null"
                     /\ after.currentPlayer = OtherRole(a.player)

\* C30 (every position): stones were captured exactly when the game has a
\* winner, who is the player who captured.
C30_CapturedMeansWon ==
  game.gameId = "atari-go" =>
    /\ game.state.blackCaptures > 0 <=> game.state.winner = "player1"
    /\ game.state.whiteCaptures > 0 <=> game.state.winner = "player2"

C30_FirstCaptureWins == []C30_CapturedMeansWon /\ [][C30_OnTry]_vars

\* a stone took two opposing stones off the board, still has an opposing
\* stone beside it, and its player won
C30_Witness ==
  /\ game.gameId = "atari-go"
  /\ game.plies >= 1
  /\ game.attempt.accepted
  /\ ~game.attempt.move.pass
  /\ game.state.winner = game.attempt.player
  /\ game.state.blackCaptures + game.state.whiteCaptures = 2
  /\ \E n \in AtariGoNeighbors(<<game.attempt.move.row, game.attempt.move.col>>) :
       game.state.board[n] = AtariGoColor(OtherRole(game.attempt.player))

\* C31 (one try of a move): a pass is accepted exactly when the game is not
\* over and it is the passer's turn; an accepted pass leaves the board as it
\* was and ends the game, as a draw, exactly when the move before it was an
\* accepted pass too, and otherwise gives the turn to the other player; an
\* accepted placement sets the count of passes back to zero and never ends
\* the game as a draw.
C31_OnTry ==
  (game.gameId = "atari-go" /\ game'.plies = game.plies + 1) =>
    LET a == game'.attempt
        before == game.state
        after == game'.state
    IN  /\ a.move.pass =>
             /\ a.accepted <=> /\ before.winner = "null"
                               /\ before.currentPlayer = a.player
             /\ a.accepted =>
                  /\ after.board = before.board
                  /\ after.passCount = before.passCount + 1
                  /\ after.winner = "draw" <=> before.passCount = 1
                  /\ after.winner \in {"null", "draw"}
                  /\ after.winner = "null" =>
                       after.currentPlayer = OtherRole(a.player)
        /\ (a.accepted /\ ~a.move.pass) =>
             /\ after.passCount = 0
             /\ after.winner # "draw"

\* C31 (every position): the count of passes is 0, 1 or 2; it is above zero
\* only when the last move was a pass, and the game is a draw exactly when it
\* is 2.
C31_DrawMeansTwoPasses ==
  game.gameId = "atari-go" =>
    /\ game.state.passCount \in 0..2
    /\ game.state.passCount > 0 => game.state.lastMove.pass
    /\ game.state.winner = "draw" <=> game.state.passCount = 2

C31_TwoPassesInARowDraw == []C31_DrawMeansTwoPasses /\ [][C31_OnTry]_vars

\* a pass answered a pass and the game ended as a draw
C31_Witness ==
  /\ game.gameId = "atari-go"
  /\ game.plies >= 1
  /\ game.attempt.accepted
  /\ game.attempt.move.pass
  /\ game.state.passCount = 2
  /\ game.state.winner = "draw"

\* a stone was placed after a pass and the pass that followed did not end the
\* game
C31_WitnessReset ==
  /\ game.gameId = "atari-go"
  /\ game.plies = 2
  /\ game.attempt.accepted
  /\ game.attempt.move.pass
  /\ game.state.passCount = 1
  /\ game.state.winner = "null"
  /\ \E c \in AtariGoCells : game.state.board[c] # "empty"

\* -------------------------------------------------------------------- Nex
\* A move is [type, ownPiece, neutralPiece, neutralsToConvert, ownToNeutral];
\* a cell is <<row, col>> and a field the client left out is << >>.
NexEngine_BOARD_SIZE == 11

NexCells ==
  (0..(NexEngine_BOARD_SIZE - 1)) \X (0..(NexEngine_BOARD_SIZE - 1))

NexEngine_createInitialState(startingPlayer) ==
  [ board |-> EmptyBoard(NexCells, "empty"),
    currentPlayer |-> startingPlayer,
    lastMove |-> << >>,
    winner |-> "null",
    moveCount |-> 0,
    canSwap |-> FALSE,
    swapped |-> FALSE ]

NexEngine_inBounds(row, col) ==
  row >= 0 /\ row < NexEngine_BOARD_SIZE /\ col >= 0 /\ col < NexEngine_BOARD_SIZE

NexEngine_getPlayerColor(player, swapped) ==
  IF swapped
  THEN IF player = "player1" THEN "white" ELSE "black"
  ELSE IF player = "player1" THEN "black" ELSE "white"

NexEngine_getHexNeighbors(row, col) ==
  { << row - 1, col >>, << row - 1, col + 1 >>, << row, col - 1 >>,
    << row, col + 1 >>, << row + 1, col - 1 >>, << row + 1, col >> }

\* the search of checkWin: the cells of the colour reached from the cells it
\* starts with
RECURSIVE NexVisited(_, _, _)
NexVisited(board, color, visited) ==
  LET more == { n \in UNION { NexEngine_getHexNeighbors(c[1], c[2]) : c \in visited } :
                  NexEngine_inBounds(n[1], n[2]) /\ board[n] = color }
  IN  IF more \subseteq visited THEN visited
      ELSE NexVisited(board, color, visited \cup more)

NexEngine_checkWin(board, color) ==
  LET far == NexEngine_BOARD_SIZE - 1
  IN  IF color = "black"
      THEN LET top == { c \in NexCells : c[1] = 0 /\ board[c] = "black" }
           IN  \E c \in NexVisited(board, "black", top) : c[1] = far
      ELSE IF color = "white"
      THEN LET left == { c \in NexCells : c[2] = 0 /\ board[c] = "white" }
           IN  \E c \in NexVisited(board, "white", left) : c[2] = far
      ELSE FALSE

NexEngine_validateMove(state, move, player) ==
  IF state.winner # "null" THEN FALSE
  ELSE IF state.currentPlayer # player THEN FALSE
  ELSE IF move.type = "swap"
  THEN state.canSwap /\ player = "player2" /\ ~state.swapped
  ELSE
    LET playerColor == NexEngine_getPlayerColor(player, state.swapped)
    IN  IF move.type = "place"
        THEN LET ownPiece == move.ownPiece
                 neutralPiece == move.neutralPiece
             IN  IF ownPiece = << >> \/ neutralPiece = << >> THEN FALSE
                 ELSE IF ~NexEngine_inBounds(ownPiece[1], ownPiece[2]) THEN FALSE
                 ELSE IF ~NexEngine_inBounds(neutralPiece[1], neutralPiece[2])
                 THEN FALSE
                 ELSE IF state.board[ownPiece] # "empty" THEN FALSE
                 ELSE IF state.board[neutralPiece] # "empty" THEN FALSE
                 ELSE IF ownPiece = neutralPiece THEN FALSE
                 ELSE TRUE
        ELSE IF move.type = "convert"
        THEN LET neutralsToConvert == move.neutralsToConvert
                 ownToNeutral == move.ownToNeutral
             IN  IF Len(neutralsToConvert) # 2 THEN FALSE
                 ELSE IF ownToNeutral = << >> THEN FALSE
                 ELSE IF \E i \in 1..2 :
                           \/ ~NexEngine_inBounds(neutralsToConvert[i][1],
                                                  neutralsToConvert[i][2])
                           \/ state.board[neutralsToConvert[i]] # "neutral"
                 THEN FALSE
                 ELSE IF ~NexEngine_inBounds(ownToNeutral[1], ownToNeutral[2])
                 THEN FALSE
                 ELSE IF state.board[ownToNeutral] # playerColor THEN FALSE
                 ELSE IF neutralsToConvert[1] = neutralsToConvert[2] THEN FALSE
                 ELSE IF \E i \in 1..2 : neutralsToConvert[i] = ownToNeutral
                 THEN FALSE
                 ELSE TRUE
        ELSE FALSE

\* the board after the pieces of a place or a convert were written
NexWritten(board, move, playerColor) ==
  IF move.type = "place"
  THEN [board EXCEPT ![move.ownPiece] = playerColor,
                     ![move.neutralPiece] = "neutral"]
  ELSE IF move.type = "convert"
  THEN [[c \in NexCells |->
           IF c = move.neutralsToConvert[1] \/ c = move.neutralsToConvert[2]
           THEN playerColor ELSE board[c]]
          EXCEPT ![move.ownToNeutral] = "neutral"]
  ELSE board

\* applyMove that names the winner by the colours the players started with
NexEngine_applyMoveFirstColours(state, move, player) ==
  IF move.type = "swap"
  THEN [state EXCEPT !.swapped = TRUE, !.canSwap = FALSE,
                     !.currentPlayer = "player1", !.moveCount = @ + 1,
                     !.lastMove = move]
  ELSE
    LET playerColor == NexEngine_getPlayerColor(player, state.swapped)
        moved == [state EXCEPT
                    !.board = NexWritten(@, move, playerColor),
                    !.lastMove = move,
                    !.moveCount = @ + 1,
                    !.canSwap = (state.moveCount + 1 = 1)]
        won == IF NexEngine_checkWin(moved.board, "black")
               THEN [moved EXCEPT !.winner = "player1"]
               ELSE IF NexEngine_checkWin(moved.board, "white")
               THEN [moved EXCEPT !.winner = "player2"]
               ELSE moved
    IN  IF won.winner = "null"
        THEN [won EXCEPT !.currentPlayer = OtherRole(player)]
        ELSE won

NexEngine_applyMove(state, move, player) ==
  IF move.type = "swap"
  THEN [state EXCEPT !.swapped = TRUE, !.canSwap = FALSE,
                     !.currentPlayer = "player1", !.moveCount = @ + 1,
                     !.lastMove = move]
  ELSE
    LET playerColor == NexEngine_getPlayerColor(player, state.swapped)
        moved == [state EXCEPT
                    !.board = NexWritten(@, move, playerColor),
                    !.lastMove = move,
                    !.moveCount = @ + 1,
                    !.canSwap = (state.moveCount + 1 = 1)]
        won == IF NexEngine_checkWin(moved.board, "black")
               THEN [moved EXCEPT
                       !.winner = IF moved.swapped THEN "player2" ELSE "player1"]
               ELSE IF NexEngine_checkWin(moved.board, "white")
               THEN [moved EXCEPT
                       !.winner = IF moved.swapped THEN "player1" ELSE "player2"]
               ELSE moved
    IN  IF won.winner = "null"
        THEN [won EXCEPT !.currentPlayer = OtherRole(player)]
        ELSE won

NexSwap ==
  [type |-> "swap", ownPiece |-> << >>, neutralPiece |-> << >>,
   neutralsToConvert |-> << >>, ownToNeutral |-> << >>]

NexPlace(ownPiece, neutralPiece) ==
  [type |-> "place", ownPiece |-> ownPiece, neutralPiece |-> neutralPiece,
   neutralsToConvert |-> << >>, ownToNeutral |-> << >>]

NexConvert(neutralsToConvert, ownToNeutral) ==
  [type |-> "convert", ownPiece |-> << >>, neutralPiece |-> << >>,
   neutralsToConvert |-> neutralsToConvert, ownToNeutral |-> ownToNeutral]

\* the first cell of a set in the order of the rows, then of the columns
FirstCell(cells) ==
  CHOOSE c \in cells : \A o \in cells : CellBefore(c, o)

\* the move a scripted game makes at a position: the swap when swapping is
\* true and the swap is on offer; else a place, black down column 5 and white
\* along row 5, the colour named idle and every neutral piece in rows 1 to 4
\* off column 5
NexScriptMove(state, swapping, idle) ==
  LET player == state.currentPlayer
      color == NexEngine_getPlayerColor(player, state.swapped)
      free == { c \in NexCells : state.board[c] = "empty" }
      aside == { c \in free : c[1] \in 1..4 /\ c[2] # 5 }
      line == IF color = "black" THEN { c \in free : c[2] = 5 }
              ELSE { c \in free : c[1] = 5 }
      ownPiece == IF color = idle THEN FirstCell(aside) ELSE FirstCell(line)
  IN  IF swapping /\ state.canSwap /\ player = "player2" /\ ~state.swapped
      THEN NexSwap
      ELSE NexPlace(ownPiece, FirstCell(aside \ {ownPiece}))

RECURSIVE NexPlay(_, _, _, _)
NexPlay(state, n, swapping, idle) ==
  IF state.winner # "null" \/ n = 0 THEN state
  ELSE IF n = 1
  THEN NexEngine_applyMove(state, NexScriptMove(state, swapping, idle),
                           state.currentPlayer)
  ELSE NexPlay(NexPlay(state, n \div 2, swapping, idle), n - (n \div 2),
               swapping, idle)

\* the positions the tries start from: the empty board, the board after the
\* first moves and after the swap, and the last positions of scripted games
\* that black or white wins, with and without the swap
NexStarts ==
  { NexEngine_createInitialState(p) : p \in Roles }
  \cup { NexPlay(NexEngine_createInitialState(p), n, FALSE, "none") :
           p \in Roles, n \in {1, 4, 20, 21} }
  \cup { NexPlay(NexEngine_createInitialState("player1"), n, FALSE, "black") :
           n \in {21, 22} }
  \cup { NexPlay(NexEngine_createInitialState("player1"), n, TRUE, "none") :
           n \in {2, 21, 22} }
  \cup { NexPlay(NexEngine_createInitialState("player1"), n, TRUE, "black") :
           n \in {22, 23} }

NexTryCells ==
  { <<10, 5>>, <<5, 10>>, <<0, 0>>, <<10, 10>>, <<-1, 0>>, <<0, 11>> }

\* the moves a client may send: the swap, places on and off the board and
\* with a piece left out, converts of neutral, coloured and empty cells, and
\* a move of no known type
NexMoves ==
  { NexSwap, [NexSwap EXCEPT !.type = "resign"] }
  \cup { NexPlace(o, n) : o \in NexTryCells, n \in NexTryCells }
  \cup { NexPlace(<<0, 0>>, << >>), NexPlace(<< >>, <<0, 0>>) }
  \cup { NexConvert(<< a, b >>, o) :
           a \in { <<1, 0>>, <<1, 1>>, <<1, 2>> },
           b \in { <<1, 0>>, <<1, 1>>, <<1, 2>> },
           o \in { <<0, 5>>, <<5, 0>>, <<1, 0>>, << >> } }
  \cup { NexConvert(<< <<1, 0>> >>, <<0, 5>>) }

InitNex ==
  /\ NoTournament
  /\ \E state \in NexStarts : game = NewGame("nex", state)

NexSubmit(player, move) ==
  /\ game.gameId = "nex"
  /\ Exploring
  /\ LET accepted == NexEngine_validateMove(game.state, move, player)
     IN  game' = [game EXCEPT
                    !.state = IF accepted
                              THEN NexEngine_applyMove(@, move, player)
                              ELSE @,
                    !.attempt = [player |-> player, move |-> move,
                                 accepted |-> accepted],
                    !.plies = @ + 1]
  /\ UNCHANGED serverVars

NextNex ==
  \E player \in Roles : \E move \in NexMoves : NexSubmit(player, move)

SpecNex == InitNex /\ [][NextNex]_vars

\* the colour a player owns: black for player1 and white for player2, the
\* other way round once the swap was made
NexOwner(color, swapped) ==
  IF (color = "black") # swapped THEN "player1" ELSE "player2"

\* the cells of the colour joined, through cells of the colour, to the far
\* edge of the colour: the bottom row for black, the right column for white
RECURSIVE JoinedToFarEdge(_, _, _)
JoinedToFarEdge(board, color, joined) ==
  LET beside == UNION { { << j[1] + d[1], j[2] + d[2] >> :
                            d \in { <<-1, 0>>, <<-1, 1>>, <<0, -1>>,
                                    <<0, 1>>, <<1, -1>>, <<1, 0>> } } :
                        j \in joined }
      more == { c \in beside \cap NexCells : board[c] = color }
  IN  IF more \subseteq joined THEN joined
      ELSE JoinedToFarEdge(board, color, joined \cup more)

\* the colour joins its two edges: top and bottom for black, left and right
\* for white
Connects(board, color) ==
  LET edge == IF color = "black" THEN 1 ELSE 2
      far == { c \in NexCells :
                 c[edge] = NexEngine_BOARD_SIZE - 1 /\ board[c] = color }
  IN  \E c \in JoinedToFarEdge(board, color, far) : c[edge] = 0

\* C32 (one try of a move): a swap is accepted exactly when the game is not
\* over, player2 is to move and sends it, and exactly one move was made; it
\* changes no cell, gives the turn to player1 and stays made; every other
\* accepted move colours cells only in the colour the mover owns, black for
\* player2 and white for player1 once the swap was made.
C32_OnTry ==
  (game.gameId = "nex" /\ game'.plies = game.plies + 1) =>
    LET a == game'.attempt
        before == game.state
        after == game'.state
        mine == IF NexOwner("black", before.swapped) = a.player
                THEN "black" ELSE "white"
    IN  /\ a.move.type = "swap" =>
             /\ a.accepted <=> /\ before.winner = "null"
                               /\ before.currentPlayer = "player2"
                               /\ a.player = "player2"
                               /\ before.moveCount = 1
                               /\ ~before.swapped
             /\ a.accepted =>
                  /\ after.board = before.board
                  /\ after.swapped
                  /\ after.currentPlayer = "player1"
                  /\ after.winner = "null"
        /\ (a.accepted /\ a.move.type # "swap") =>
             /\ after.swapped = before.swapped
             /\ \E c \in NexCells :
                  after.board[c] = mine /\ before.board[c] # mine
             /\ \A c \in NexCells :
                  (after.board[c] # before.board[c]) =>
                    after.board[c] \in {mine, "neutral"}
        /\ ~a.accepted => after = before

\* C32 (every position): the winner, if any, is a player, never a draw, and
\* the colour that player owns joins its two edges.
C32_WinnerConnects ==
  game.gameId = "nex" =>
    /\ game.state.winner \in {"null", "player1", "player2"}
    /\ \A color \in {"black", "white"} :
         game.state.winner = NexOwner(color, game.state.swapped) =>
           Connects(game.state.board, color)

C32_SwapAndConnectionWin == []C32_WinnerConnects /\ [][C32_OnTry]_vars

\* after the swap player2 placed the black piece that joins top and bottom
\* and is the winner
C32_Witness ==
  /\ game.gameId = "nex"
  /\ game.plies >= 1
  /\ game.state.swapped
  /\ game.attempt.accepted
  /\ game.attempt.player = "player2"
  /\ game.state.winner = "player2"
  /\ Connects(game.state.board, "black")

\* player2 swapped as the second move of the game
C32_WitnessSwap ==
  /\ game.gameId = "nex"
  /\ game.plies >= 1
  /\ game.attempt.accepted
  /\ game.attempt.move.type = "swap"
  /\ game.state.moveCount = 2

\* ------------------------------------------------------------ submit_move
\* game g of match m was played and is over
GameEnded(m, g) ==
  \E ix \in 1..Len(sessions[m]) :
    sessions[m][ix].gameNumber = g /\ sessions[m][ix].isFinished

\* C33: a submit_move that names a game of the match that is over is not
\* applied: it is not answered with the broadcast of a new state, and no
\* session of the match gets a move.
C33_OnSubmitMove ==
  \A c \in Conns : \A m \in 1..Len(matches) : \A g \in 1..MaxGames :
    \A move \in {"illegal", "place", "capture", "pass"} :
      (SubmitMove(c, m, g, move) /\ GameEnded(m, g)) =>
        last' # Reply("submit_move", "ok")

C33_StaleMoveIsNotApplied == [][C33_OnSubmitMove]_vars

\* ----------------------------------------------------------------- match_end
\* the step has broadcast match_end for match m
MatchEndSent(m) ==
  /\ m \in DOMAIN out /\ m \in DOMAIN out'
  /\ out'[m] # out[m]
  /\ Len(out'[m]) >= 1
  /\ out'[m][Len(out'[m])].type = "match_end"

\* after the step the player holds a slot of a match that is still to be
\* played or in play
HasLaterSlot(playerId, m) ==
  \E later \in DOMAIN matches' :
    /\ later # m
    /\ matches'[later].phase # "finished"
    /\ playerId \in {matches'[later].player1Id, matches'[later].player2Id}

C34_OnMatchEnd ==
  \A m \in DOMAIN out' :
    MatchEndSent(m) =>
      LET msg == out'[m][Len(out'[m])]
          match == matches'[m]
          slot == [player1 |-> match.player1Id, player2 |-> match.player2Id]
      IN  \A role \in {"player1", "player2"} :
            msg.eliminatedFromTournament[role] <=>
              (slot[role] = match.loserId /\ ~HasLaterSlot(slot[role], m))

\* C34: the match_end of a match tells a player eliminatedFromTournament
\* exactly when that player lost the match and holds no slot of a match of
\* the tournament that is still to be played.
C34_EliminatedIffLostWithNoLaterSlot == [][C34_OnMatchEnd]_vars

\* ------------------------------------------------------- sessions of a match
OpenSessions(m) ==
  { ix \in 1..Len(sessions[m]) : ~sessions[m][ix].isFinished }

C35_AtMostOneOpenSession ==
  \A m \in DOMAIN sessions : Cardinality(OpenSessions(m)) <= 1

\* the step has created a session for match m
SessionCreated(m) ==
  /\ m \in DOMAIN sessions'
  /\ Len(sessions'[m]) >= 1
  /\ (m \in DOMAIN sessions => Len(sessions'[m]) > Len(sessions[m]))

C35_OnCreate ==
  \A m \in DOMAIN sessions' :
    SessionCreated(m) => matches'[m].phase = "playing"

\* C35: under every interleaving of ready messages, moves, bot timers, the
\* inter-game timer and the administrator's start, a match never has two
\* sessions that are not finished, and a step that creates a session for a
\* match leaves that match in phase playing.
C35_OneOpenSessionOnlyWhilePlaying ==
  []C35_AtMostOneOpenSession /\ [][C35_OnCreate]_vars

\* the second game of a match was opened by the inter-game timer after the
\* first was played to its end, and a move of it has been applied
C35_Witness ==
  \E m \in DOMAIN sessions :
    /\ Len(sessions[m]) = 2
    /\ sessions[m][1].isFinished
    /\ ~sessions[m][2].isFinished
    /\ Len(sessions[m][2].moves) >= 1
    /\ matches[m].phase = "playing"

\* ------------------------------------------------------ the score of a match
\* the games of match m that were played to their end
FinishedGames(m) ==
  { ix \in 1..Len(sessions[m]) : sessions[m][ix].isFinished }

\* those of them that ended with a winner
WonGames(m) ==
  { ix \in FinishedGames(m) :
      sessions[m][ix].state.winner \in {"player1", "player2"} }

\* C36: each finished game is recorded exactly once: for every match in
\* phase playing, currentGame is one plus the number of its finished games
\* and p1Wins + p2Wins is the number of those games that ended with a winner.
C36_EachGameRecordedOnce ==
  \A m \in DOMAIN matches :
    matches[m].phase = "playing" =>
      /\ matches[m].currentGame = 1 + Cardinality(FinishedGames(m))
      /\ matches[m].p1Wins + matches[m].p2Wins = Cardinality(WonGames(m))

\* a match in play after a drawn game and a won game
C36_Witness ==
  \E m \in DOMAIN matches :
    /\ matches[m].phase = "playing"
    /\ Cardinality(FinishedGames(m)) = 2
    /\ Cardinality(WonGames(m)) = 1

\* ------------------------------------------------------ a player's one match
\* getPlayerActiveMatch takes the first match that holds the player and is
\* not finished; these are all of them
ActiveMatchesOf(playerId) ==
  { m \in DOMAIN matches :
      /\ playerId \in {matches[m].player1Id, matches[m].player2Id}
      /\ matches[m].phase # "finished" }

\* C37: at any time each player holds a slot in at most one match whose
\* phase is not finished.
C37_OneActiveMatchPerPlayer ==
  \A playerId \in DOMAIN players :
    Cardinality(ActiveMatchesOf(playerId)) <= 1

\* the loser of a finished winners-bracket match sits in a losers-bracket
\* match that is not finished, and the winner in a later winners match
C37_Witness ==
  \E m \in DOMAIN matches :
    /\ matches[m].phase = "finished"
    /\ matches[m].loserId # NoPlayer
    /\ \E l \in ActiveMatchesOf(matches[m].loserId) :
         matches[l].bracket = "losers"
    /\ ActiveMatchesOf(matches[m].winnerId) # {}

\* -------------------------------------------------------- the log of a game
\* the role a player holds in match m
RoleIn(m, playerId) ==
  IF playerId = matches[m].player1Id THEN "player1" ELSE "player2"

\* the log of a session names players of the match, no player twice in a
\* row, and while the game is on the turn is with the role that did not
\* write the last entry
LogAlternates(m, session) ==
  LET log == session.moves
  IN  /\ \A i \in 1..Len(log) :
           log[i] \in {matches[m].player1Id, matches[m].player2Id}
      /\ \A i \in 1..(Len(log) - 1) : log[i] # log[i + 1]
      /\ (~session.isFinished /\ Len(log) >= 1) =>
           session.currentTurn = OtherRole(RoleIn(m, log[Len(log)]))

C38_EveryLogAlternates ==
  \A m \in DOMAIN sessions :
    \A ix \in 1..Len(sessions[m]) : LogAlternates(m, sessions[m][ix])

\* the step has written the first entry of the log of session ix of match m
FirstMoveLogged(m, ix) ==
  /\ m \in DOMAIN sessions /\ m \in DOMAIN sessions'
  /\ ix \in 1..Len(sessions[m]) /\ ix \in 1..Len(sessions'[m])
  /\ sessions[m][ix].moves = << >>
  /\ Len(sessions'[m][ix].moves) = 1

\* the first entry is written by the holder of the starting role, the role
\* the match names for its current game
C38_OnFirstMove ==
  \A m \in DOMAIN sessions :
    \A ix \in 1..Len(sessions[m]) :
      FirstMoveLogged(m, ix) =>
        RoleIn(m, sessions'[m][ix].moves[1]) = matches[m].whoStartsCurrentGame

\* C38: in every session the log of moves alternates strictly between the
\* two players of the match, its first entry is by the player who holds the
\* starting role, and while the game is not over the session's turn is the
\* role opposite to the author of the last entry.
C38_MovesAlternateFromTheStarter ==
  []C38_EveryLogAlternates /\ [][C38_OnFirstMove]_vars

\* the second game of a match, started by player 2, with a move of each
\* player in its log and the game still on
C38_Witness ==
  \E m \in DOMAIN sessions :
    /\ Len(sessions[m]) = 2
    /\ matches[m].whoStartsCurrentGame = "player2"
    /\ ~sessions[m][2].isFinished
    /\ Len(sessions[m][2].moves) = 2
    /\ sessions[m][2].moves[1] = matches[m].player2Id

\* -------------------------------------------------------------- reachability
\* the open connections attached to the player: ws.data names the player,
\* or playerConnections names the connection for the player
LiveConnections(playerId) ==
  { c \in Conns : conn[c].open /\ conn[c].playerId = playerId }
  \cup getPlayerConnection(playerId)

\* a client is marked online exactly while a connection is attached to it
OnlineIffAttached ==
  \A playerId \in DOMAIN players :
    ~players[playerId].isBot =>
      (players[playerId].isOnline <=> LiveConnections(playerId) # {})

\* the player of connection old is also the player of the open connection
\* new, on which it joined later
JoinedAgain(playerId, old, new) ==
  /\ old # new
  /\ conn[old].open /\ conn[old].playerId = playerId
  /\ conn[new].open /\ conn[new].playerId = playerId
  /\ playerId \in DOMAIN playerConnections
  /\ playerConnections[playerId] = new

C39_OnCloseOfOldConnection ==
  \A playerId \in DOMAIN players : \A old, new \in Conns :
    (JoinedAgain(playerId, old, new) /\ handleClose(old)) =>
      /\ players'[playerId].isOnline
      /\ playerId \in DOMAIN playerConnections'
      /\ playerConnections'[playerId] = new

\* C39: a player is marked online exactly when a live connection is attached
\* to them: when a player has joined again on a new connection and the old
\* connection closes afterwards, the player stays online and stays reachable
\* on the new connection.
C39_RejoinedPlayerStaysOnline == [][C39_OnCloseOfOldConnection]_vars

\* ------------------------------------------------------- the bracket at start
\* The bracket is a function of the shuffled players alone: tournaments of
\* 2..MaxSeeds players in registration, started with every shuffle.
MaxSeeds == 5

InitBracket == \E n \in 2..MaxSeeds : Registered(n, 0)

NextBracket == \E shuffled \in Shuffles(DOMAIN players) : AdminStart(shuffled)

SpecBracket == InitBracket /\ [][NextBracket]_vars

\* the winners-bracket matches of round 1, the first bracketSize / 2 matches
FirstRound ==
  { m \in DOMAIN matches :
      matches[m].bracket = "winners" /\ matches[m].round = 1 }

\* C40: after start with any n >= 2 players every winners-bracket round-1
\* match has at least one filled slot, so that every later winners-bracket
\* match can still receive a player from each of its two source matches.
C40_EveryFirstRoundMatchSeeded ==
  tphase = "running" =>
    \A m \in FirstRound :
      matches[m].player1Id # NoPlayer \/ matches[m].player2Id # NoPlayer

====
